---- MODULE Spec2Model ----
(***************************************************************************)
(* EMV interoperability framework: the BER-TLV codec, the APDU status      *)
(* words, the EMV transaction engine (emv-engine.js) and the terminal's    *)
(* executeContactlessTransaction driver.                                   *)
(*                                                                         *)
(* Conventions.  A byte buffer is a sequence of 0..255, addressed with     *)
(* 0-based offsets as in the source.  A hex string (valueHex) is modelled  *)
(* by the bytes it spells and a tagHex string by the tag number it spells. *)
(* A nullable field holds <<>> for null and <<v>> for the value v.         *)
(* An out-of-range buffer read yields Undef (JavaScript undefined).        *)
(* ctx.log, ctx.timings and the timestamp of an issue are write-only       *)
(* diagnostics that no operation reads; they are not part of the state.    *)
(***************************************************************************)
EXTENDS Integers, Sequences, FiniteSets, TLC

\* ------------------------------------------------------------------ bounds
MaxErrors == 1
MaxWarnings == 1
MaxRecords == 1
MaxIssues == 2
MaxAflEntries == 2

\* ------------------------------------------------------- JavaScript values
Undef == -1
Null == <<>>
Some(v) == <<v>>
IsNull(x) == x = <<>>

\* x & mask on non-negative operands; undefined converts to 0
RECURSIVE BitAnd(_, _)
BitAnd(a, b) ==
  IF a <= 0 \/ b <= 0 THEN 0
  ELSE (a % 2) * (b % 2) + 2 * BitAnd(a \div 2, b \div 2)

\* buffer[offset]
At(buffer, offset) ==
  IF offset >= 0 /\ offset < Len(buffer) THEN buffer[offset + 1] ELSE Undef

\* buffer.slice(from, to): both ends clamped to the buffer
Slice(buffer, from, to) ==
  LET f == IF from > Len(buffer) THEN Len(buffer) ELSE from
      t == IF to > Len(buffer) THEN Len(buffer) ELSE to
  IN IF t <= f THEN <<>> ELSE SubSeq(buffer, f + 1, t)

\* (x << 8) | b on 32-bit integers; an undefined b contributes nothing
Shl8Or(x, b) ==
  LET low == x % 8388608
      b23 == (x \div 8388608) % 2
      add == IF b = Undef THEN 0 ELSE b
  IN IF b23 = 0 THEN low * 256 + add
     ELSE ((low * 256 + add) - 2147483647) - 1

\* ------------------------------------------------------------- status words
SW_SUCCESS == 36864
SW_FILE_NOT_FOUND == 27266
SW_RECORD_NOT_FOUND == 27267
SW_CONDITIONS_NOT_SATISFIED == 27013

\* SW.isSuccess
isSuccess(sw) == sw = 36864 \/ (sw >= 37120 /\ sw <= 37375)

\* ResponseAPDU.getStatusDescription
getStatusDescription(sw) ==
  IF sw \div 256 = 97 THEN "More data available"
  ELSE CASE sw = 36864 -> "Success"
         [] sw = 26368 -> "Wrong length"
         [] sw = 27010 -> "Security status not satisfied"
         [] sw = 27011 -> "Authentication method blocked"
         [] sw = 27012 -> "Reference data not found"
         [] sw = 27013 -> "Conditions of use not satisfied"
         [] sw = 27014 -> "Command not allowed"
         [] sw = 27266 -> "File not found"
         [] sw = 27267 -> "Record not found"
         [] sw = 27270 -> "Incorrect P1-P2"
         [] sw = 27272 -> "Referenced data not found"
         [] sw = 27904 -> "Instruction not supported"
         [] sw = 28160 -> "Class not supported"
         [] OTHER -> "Unknown status"

\* ---------------------------------------------------------------- TLV codec
\* TLVParser.parseTag
RECURSIVE parseTagMore(_, _, _, _)
parseTagMore(buffer, offset, tag, tagLength) ==
  LET len2 == tagLength + 1
      b == At(buffer, offset + len2 - 1)
      tag2 == Shl8Or(tag, b)
  IN IF BitAnd(b, 128) = 128
       THEN parseTagMore(buffer, offset, tag2, len2)
       ELSE [tag |-> tag2, tagLength |-> len2]

parseTag(buffer, offset) ==
  LET tag == At(buffer, offset)
  IN IF BitAnd(tag, 31) = 31
       THEN parseTagMore(buffer, offset, tag, 1)
       ELSE [tag |-> tag, tagLength |-> 1]

\* TLVParser.parseLength
RECURSIVE parseLengthLong(_, _, _, _, _)
parseLengthLong(buffer, offset, i, numLengthBytes, length) ==
  IF i > numLengthBytes THEN length
  ELSE parseLengthLong(buffer, offset, i + 1, numLengthBytes,
                       Shl8Or(length, At(buffer, offset + i)))

parseLength(buffer, offset) ==
  LET firstByte == At(buffer, offset)
  IN IF BitAnd(firstByte, 128) = 0
       THEN [length |-> firstByte, lengthBytes |-> 1]
       ELSE LET numLengthBytes == BitAnd(firstByte, 127)
            IN [length |-> parseLengthLong(buffer, offset, 1, numLengthBytes, 0),
                lengthBytes |-> numLengthBytes + 1]

\* TLVParser.isConstructedTag
isConstructedTag(tag) ==
  LET firstByte == IF tag > 255 THEN (tag \div 256) % 256 ELSE tag
  IN BitAnd(firstByte, 32) = 32

\* TLVParser.parseBuffer.  An undefined length makes the offset NaN: the
\* node is pushed with an empty value and the loop ends.
RECURSIVE parseBuffer(_, _, _)

\* parseBuffer once the tag and the length at offset are read: the node whose
\* value starts at valueOffset, then the rest of the buffer
parseValue(buffer, endOffset, tag, length, valueOffset) ==
  LET value == IF length = Undef THEN <<>>
               ELSE Slice(buffer, valueOffset, valueOffset + length)
      isConstructed == isConstructedTag(tag)
      node == [tag |-> tag,
               length |-> length,
               value |-> value,
               constructed |-> isConstructed,
               children |-> IF isConstructed
                              THEN parseBuffer(value, 0, Len(value))
                              ELSE <<>>]
  IN IF length = Undef THEN <<node>>
     ELSE <<node>> \o parseBuffer(buffer, valueOffset + length, endOffset)

parseBuffer(buffer, offset, endOffset) ==
  IF ~(offset < endOffset) THEN <<>>
  ELSE IF At(buffer, offset) = 0 \/ At(buffer, offset) = 255
    THEN parseBuffer(buffer, offset + 1, endOffset)
  ELSE
    LET t == parseTag(buffer, offset)
        l == parseLength(buffer, offset + t.tagLength)
    IN parseValue(buffer, endOffset, t.tag, l.length,
                  offset + t.tagLength + l.lengthBytes)

\* TLVParser.parse
parse(data) == parseBuffer(data, 0, Len(data))

\* TLVParser.findTag: first match in depth-first order, or null
RECURSIVE findTag(_, _)
findTag(tlvArray, tag) ==
  IF tlvArray = <<>> THEN Null
  ELSE LET tlv == Head(tlvArray)
       IN IF tlv.tag = tag THEN Some(tlv)
          ELSE LET found == IF tlv.constructed /\ Len(tlv.children) > 0
                              THEN findTag(tlv.children, tag)
                              ELSE Null
               IN IF ~IsNull(found) THEN found
                  ELSE findTag(Tail(tlvArray), tag)

\* TLVParser.findAllTags
RECURSIVE findAllTags(_, _)
findAllTags(tlvArray, tag) ==
  IF tlvArray = <<>> THEN <<>>
  ELSE LET tlv == Head(tlvArray)
           self == IF tlv.tag = tag THEN <<tlv>> ELSE <<>>
           below == IF tlv.constructed /\ Len(tlv.children) > 0
                      THEN findAllTags(tlv.children, tag)
                      ELSE <<>>
       IN self \o below \o findAllTags(Tail(tlvArray), tag)

\* TLVBuilder.encodeTag: the bytes of the tag's hex string
RECURSIVE encodeTag(_)
encodeTag(tag) ==
  IF tag < 256 THEN <<tag>> ELSE encodeTag(tag \div 256) \o <<tag % 256>>

\* an encoder that keeps the short form up to 255
encodeLength_shortTo255(length) ==
  IF length < 256 THEN <<length>>
  ELSE IF length < 65536 THEN <<130, (length \div 256) % 256, length % 256>>
  ELSE <<131, (length \div 65536) % 256, (length \div 256) % 256, length % 256>>

\* TLVBuilder.encodeLength
encodeLength(length) ==
  IF length < 128 THEN <<length>>
  ELSE IF length < 256 THEN <<129, length>>
  ELSE IF length < 65536 THEN <<130, (length \div 256) % 256, length % 256>>
  ELSE <<131, (length \div 65536) % 256, (length \div 256) % 256, length % 256>>

\* TLVBuilder.build over items [tag, value]; a constructed item's value is
\* the build of its child builder (addConstructed)
RECURSIVE build(_)
build(tlvData) ==
  IF tlvData = <<>> THEN <<>>
  ELSE LET item == Head(tlvData)
       IN encodeTag(item.tag) \o encodeLength(Len(item.value)) \o item.value
          \o build(Tail(tlvData))

addPrimitive(tag, value) == [tag |-> tag, value |-> value]
addConstructed(tag, children) == [tag |-> tag, value |-> build(children)]

\* DOLParser.parse
RECURSIVE dolParseFrom(_, _)
dolParseFrom(buffer, offset) ==
  IF ~(offset < Len(buffer)) THEN <<>>
  ELSE LET t == parseTag(buffer, offset)
           off1 == offset + t.tagLength
       IN <<[tag |-> t.tag, length |-> At(buffer, off1)]>>
          \o dolParseFrom(buffer, off1 + 1)

dolParse(dol) == dolParseFrom(dol, 0)

\* DOLParser.buildData; values maps a tag to its bytes
Zeros(n) == [i \in 1..n |-> 0]

\* a buildData that keeps the leading bytes of a value that is too long
RECURSIVE dolBuildData_keepLeft(_, _)
dolBuildData_keepLeft(dolEntries, values) ==
  IF dolEntries = <<>> THEN <<>>
  ELSE LET entry == Head(dolEntries)
           n == IF entry.length = Undef THEN 0 ELSE entry.length
           supplied == IF entry.tag \in DOMAIN values /\ values[entry.tag] # <<>>
                         THEN values[entry.tag]
                         ELSE Zeros(n)
           piece == IF entry.length = Undef THEN supplied
                    ELSE IF Len(supplied) < n
                      THEN Zeros(n - Len(supplied)) \o supplied
                    ELSE Slice(supplied, 0, n)
       IN piece \o dolBuildData_keepLeft(Tail(dolEntries), values)

RECURSIVE dolBuildData(_, _)
dolBuildData(dolEntries, values) ==
  IF dolEntries = <<>> THEN <<>>
  ELSE LET entry == Head(dolEntries)
           n == IF entry.length = Undef THEN 0 ELSE entry.length
           supplied == IF entry.tag \in DOMAIN values /\ values[entry.tag] # <<>>
                         THEN values[entry.tag]
                         ELSE Zeros(n)
           piece == IF entry.length = Undef THEN supplied
                    ELSE IF Len(supplied) < n
                      THEN Zeros(n - Len(supplied)) \o supplied
                    ELSE IF Len(supplied) > n
                      THEN Slice(supplied, Len(supplied) - n, Len(supplied))
                    ELSE supplied
       IN piece \o dolBuildData(Tail(dolEntries), values)

\* ------------------------------------------------------------- EMV tags
TAG_FCI == 111
TAG_DF_NAME == 132
TAG_FCI_PROP == 165
TAG_FCI_IDD == 48908
TAG_PDOL == 40760
TAG_KERNEL_ID == 40746
TAG_FFI == 40814
TAG_FORMAT1 == 128
TAG_FORMAT2 == 119
TAG_AIP == 130
TAG_AFL == 148
TAG_RECORD == 112
TAG_CDOL1 == 140
TAG_CDOL2 == 141
TAG_PAR == 14647553
TAG_CID == 40743
TAG_AC == 40742
TAG_ATC == 40758
TAG_PAN == 90
TAG_AMOUNT == 40706
TAG_DIR_ENTRY == 97
TAG_ADF_NAME == 79
TAG_PRIORITY == 135

\* CryptogramType and KernelID
AAC == 0
TC == 64
ARQC == 128
KERNEL_C2 == 2
KERNEL_C8 == 8

\* ------------------------------------------------------ TransactionContext
\* constructor
NewContext ==
  [state |-> "IDLE",
   kernel |-> Null,
   selectedAID |-> Null,
   fci |-> Null,
   pdol |-> Null,
   aip |-> Null,
   afl |-> Null,
   records |-> <<>>,
   cardData |-> <<>>,
   tvr |-> Zeros(5),
   cdol1 |-> Null,
   cdol2 |-> Null,
   cryptogram |-> Null,
   cryptogramType |-> Null,
   cvmResult |-> Null,
   errors |-> <<>>,
   warnings |-> <<>>,
   interopIssues |-> <<>>]

\* Map.set
MapSet(m, k, v) == [x \in (DOMAIN m) \cup {k} |-> IF x = k THEN v ELSE m[x]]

\* TransactionContext.addCardData (addRecursive)
RECURSIVE addCardData(_, _)
addCardData(cardData, tlvList) ==
  IF tlvList = <<>> THEN cardData
  ELSE LET tlv == Head(tlvList)
           m1 == MapSet(cardData, tlv.tag, tlv.value)
           m2 == IF tlv.constructed /\ Len(tlv.children) > 0
                   THEN addCardData(m1, tlv.children)
                   ELSE m1
       IN addCardData(m2, Tail(tlvList))

\* TransactionContext.getCardData
getCardData(c, tag) == IF tag \in DOMAIN c.cardData THEN Some(c.cardData[tag]) ELSE Null

\* TransactionContext.recordInteropIssue
recordInteropIssue(c, type, severity) ==
  [c EXCEPT !.interopIssues =
     Append(@, [type |-> type, severity |-> severity, state |-> c.state])]

\* an entry of ctx.errors / ctx.warnings; absent properties are "undefined"
ErrorEntry(phase, code, sw, message) ==
  [phase |-> phase, code |-> code, sw |-> sw, message |-> message]

\* --------------------------------------------------------- EMVProtocolEngine
\* an FFI check that also records an invalid form factor as a transaction error
validateFFI_recordsError(c, ffiTag, detectInteropIssues) ==
  IF ~detectInteropIssues THEN c
  ELSE
    LET ffi == ffiTag.value
        c1 == IF Len(ffi) < 4
                THEN recordInteropIssue(c, "FFI_LENGTH", "WARNING")
                ELSE c
        formFactor == BitAnd(At(ffi, 1), 15)
        c2 == IF ~(formFactor \in 0..6)
                THEN [recordInteropIssue(c1, "FFI_INVALID_FORM_FACTOR", "ERROR") EXCEPT
                        !.errors = Append(@, ErrorEntry("SELECT", "undefined", Undef,
                                                        "FFI_INVALID_FORM_FACTOR"))]
                ELSE c1
        c3 == IF c.kernel = Some(KERNEL_C8)
                THEN recordInteropIssue(c2, "FFI_C8_KERNEL", "INFO")
                ELSE c2
    IN c3

\* an FFI check that takes form factor 7 for a defined one
validateFFI_upTo7(c, ffiTag, detectInteropIssues) ==
  IF ~detectInteropIssues THEN c
  ELSE
    LET ffi == ffiTag.value
        c1 == IF Len(ffi) < 4
                THEN recordInteropIssue(c, "FFI_LENGTH", "WARNING")
                ELSE c
        formFactor == BitAnd(At(ffi, 1), 15)
        c2 == IF ~(formFactor \in 0..7)
                THEN recordInteropIssue(c1, "FFI_INVALID_FORM_FACTOR", "ERROR")
                ELSE c1
        c3 == IF c.kernel = Some(KERNEL_C8)
                THEN recordInteropIssue(c2, "FFI_C8_KERNEL", "INFO")
                ELSE c2
    IN c3

\* EMVProtocolEngine.validateFFI
validateFFI(c, ffiTag, detectInteropIssues) ==
  IF ~detectInteropIssues THEN c
  ELSE
    LET ffi == ffiTag.value
        c1 == IF Len(ffi) < 4
                THEN recordInteropIssue(c, "FFI_LENGTH", "WARNING")
                ELSE c
        formFactor == BitAnd(At(ffi, 1), 15)
        c2 == IF ~(formFactor \in 0..6)
                THEN recordInteropIssue(c1, "FFI_INVALID_FORM_FACTOR", "ERROR")
                ELSE c1
        c3 == IF c.kernel = Some(KERNEL_C8)
                THEN recordInteropIssue(c2, "FFI_C8_KERNEL", "INFO")
                ELSE c2
    IN c3

\* a PAR check that compares the count of hex characters with 29
validatePAR_29chars(c, parTag, detectInteropIssues) ==
  IF ~detectInteropIssues THEN c
  ELSE
    LET c1 == IF Len(parTag.value) * 2 # 29
                THEN recordInteropIssue(c, "PAR_LENGTH", "WARNING")
                ELSE c
    IN recordInteropIssue(c1, "PAR_LEGACY_CHECK", "INFO")

\* EMVProtocolEngine.validatePAR (58 hex characters are 29 bytes)
validatePAR(c, parTag, detectInteropIssues) ==
  IF ~detectInteropIssues THEN c
  ELSE
    LET c1 == IF Len(parTag.value) * 2 # 58
                THEN recordInteropIssue(c, "PAR_LENGTH", "WARNING")
                ELSE c
    IN recordInteropIssue(c1, "PAR_LEGACY_CHECK", "INFO")

\* the outcome of an engine call: the context it leaves, the value it
\* returns (ok: the boolean, or non-null for the builders; data: the bytes a
\* builder returns) and whether it threw
Outcome(c, ok, data, threw) == [ctx |-> c, ok |-> ok, data |-> data, threw |-> threw]

\* a failure block that leaves ctx.state as it was
selectFailure_keepsState(c, response) ==
  Outcome([c EXCEPT
             !.errors = Append(@, ErrorEntry("SELECT", "undefined", response.sw,
                                             getStatusDescription(response.sw)))],
          FALSE, <<>>, FALSE)

\* processSelectResponse, the block taken when !response.isSuccess
selectFailure(c, response) ==
  Outcome([c EXCEPT
             !.errors = Append(@, ErrorEntry("SELECT", "undefined", response.sw,
                                             getStatusDescription(response.sw))),
             !.state = "ERROR"],
          FALSE, <<>>, FALSE)

\* EMVProtocolEngine.processSelectResponse
processSelectResponse(c, response, detectInteropIssues) ==
  IF ~isSuccess(response.sw)
    THEN selectFailure(c, response)
  ELSE
    LET fciTLV == parse(response.data)
        c1 == [c EXCEPT !.fci = Some(fciTLV),
                        !.cardData = addCardData(@, fciTLV)]
        pdolTag == findTag(fciTLV, TAG_PDOL)
        c2 == IF ~IsNull(pdolTag)
                THEN [c1 EXCEPT !.pdol = Some(dolParse(pdolTag[1].value))]
                ELSE c1
        kernelId == findTag(fciTLV, TAG_KERNEL_ID)
        c3 == IF ~IsNull(kernelId)
                THEN [c2 EXCEPT !.kernel = Some(At(kernelId[1].value, 0))]
                ELSE c2
        ffi == findTag(fciTLV, TAG_FFI)
        c4 == IF ~IsNull(ffi)
                THEN validateFFI(c3, ffi[1], detectInteropIssues)
                ELSE c3
    IN Outcome([c4 EXCEPT !.state = "INITIATE_APPLICATION_PROCESSING"],
               TRUE, <<>>, FALSE)

\* EMVProtocolEngine.buildGPOData
buildGPOData(c, terminalData) ==
  IF IsNull(c.pdol) \/ Len(c.pdol[1]) = 0
    THEN Outcome(c, TRUE, <<131, 0>>, FALSE)
    ELSE Outcome(c, TRUE,
                 build(<<addPrimitive(131, dolBuildData(c.pdol[1], terminalData))>>),
                 FALSE)

\* EMVProtocolEngine.parseAFL: one entry per started group of 4 bytes
RECURSIVE parseAFLFrom(_, _)
parseAFLFrom(aflData, i) ==
  IF ~(i < Len(aflData)) THEN <<>>
  ELSE <<[sfi |-> BitAnd(At(aflData, i), 248) \div 8,
          firstRecord |-> At(aflData, i + 1),
          lastRecord |-> At(aflData, i + 2),
          numODARecords |-> At(aflData, i + 3)]>>
       \o parseAFLFrom(aflData, i + 4)

parseAFL(aflData) == parseAFLFrom(aflData, 0)

\* a Format 1 branch that takes the AFL up to offset LL instead of 2 + LL
gpoFormat1_shortAfl(c, gpoData) ==
  LET length == At(gpoData, 1)
      aip == Slice(gpoData, 2, 4)
      afl == IF length = Undef THEN <<>> ELSE Slice(gpoData, 4, length)
  IN [c EXCEPT !.aip = Some(aip), !.afl = Some(parseAFL(afl))]

\* processGPOResponse, Format 1 branch (tag 80): 80 LL AIP AFL.
\* slice(4, 2 + undefined) is slice(4, NaN), which is empty.
gpoFormat1(c, gpoData) ==
  LET length == At(gpoData, 1)
      aip == Slice(gpoData, 2, 4)
      afl == IF length = Undef THEN <<>> ELSE Slice(gpoData, 4, 2 + length)
  IN [c EXCEPT !.aip = Some(aip), !.afl = Some(parseAFL(afl))]

\* processGPOResponse, Format 2 branch (template 77)
gpoFormat2(c, gpoData) ==
  LET tlvData == parse(gpoData)
      c1 == [c EXCEPT !.cardData = addCardData(@, tlvData)]
      aipTag == findTag(tlvData, TAG_AIP)
      c2 == IF ~IsNull(aipTag)
              THEN [c1 EXCEPT !.aip = Some(aipTag[1].value)]
              ELSE c1
      aflTag == findTag(tlvData, TAG_AFL)
  IN IF ~IsNull(aflTag)
       THEN [c2 EXCEPT !.afl = Some(parseAFL(aflTag[1].value))]
       ELSE c2

\* EMVProtocolEngine.processGPOResponse.  With empty response data the
\* else branch evaluates gpoData[0].toString(16) on undefined and throws
\* before anything is written.
processGPOResponse(c, response) ==
  IF ~isSuccess(response.sw)
    THEN Outcome([c EXCEPT
                    !.errors = Append(@, ErrorEntry("GPO", "undefined", response.sw,
                                                    getStatusDescription(response.sw))),
                    !.state = "ERROR"],
                 FALSE, <<>>, FALSE)
  ELSE
    LET gpoData == response.data IN
    IF At(gpoData, 0) = TAG_FORMAT1
      THEN Outcome([gpoFormat1(c, gpoData) EXCEPT !.state = "READ_APPLICATION_DATA"],
                   TRUE, <<>>, FALSE)
    ELSE IF At(gpoData, 0) = TAG_FORMAT2
      THEN Outcome([gpoFormat2(c, gpoData) EXCEPT !.state = "READ_APPLICATION_DATA"],
                   TRUE, <<>>, FALSE)
    ELSE IF At(gpoData, 0) = Undef
      THEN Outcome(c, FALSE, <<>>, TRUE)
    ELSE Outcome([c EXCEPT
                    !.errors = Append(@, ErrorEntry("GPO", "undefined", Undef,
                                                    "Unknown GPO response format")),
                    !.state = "ERROR"],
                 FALSE, <<>>, FALSE)

\* a failure block that treats the failed read as fatal
readRecordFailure_fatal(c, response, sfi, record) ==
  Outcome([c EXCEPT
             !.warnings = Append(@, [phase |-> "READ_RECORD", sfi |-> sfi,
                                     record |-> record, sw |-> response.sw,
                                     message |-> getStatusDescription(response.sw)]),
             !.state = "ERROR"],
          FALSE, <<>>, FALSE)

\* processReadRecordResponse, the block taken when !response.isSuccess
readRecordFailure(c, response, sfi, record) ==
  Outcome([c EXCEPT
             !.warnings = Append(@, [phase |-> "READ_RECORD", sfi |-> sfi,
                                     record |-> record, sw |-> response.sw,
                                     message |-> getStatusDescription(response.sw)])],
          FALSE, <<>>, FALSE)

\* EMVProtocolEngine.processReadRecordResponse
processReadRecordResponse(c, response, sfi, record, detectInteropIssues) ==
  IF ~isSuccess(response.sw)
    THEN readRecordFailure(c, response, sfi, record)
  ELSE
    LET recordTLV == parse(response.data)
        c1 == [c EXCEPT !.records = Append(@, [sfi |-> sfi, record |-> record,
                                               data |-> recordTLV]),
                        !.cardData = addCardData(@, recordTLV)]
        cdol1Tag == findTag(recordTLV, TAG_CDOL1)
        c2 == IF ~IsNull(cdol1Tag)
                THEN [c1 EXCEPT !.cdol1 = Some(dolParse(cdol1Tag[1].value))]
                ELSE c1
        cdol2Tag == findTag(recordTLV, TAG_CDOL2)
        c3 == IF ~IsNull(cdol2Tag)
                THEN [c2 EXCEPT !.cdol2 = Some(dolParse(cdol2Tag[1].value))]
                ELSE c2
        parTag == findTag(recordTLV, TAG_PAR)
        c4 == IF ~IsNull(parTag)
                THEN validatePAR(c3, parTag[1], detectInteropIssues)
                ELSE c3
    IN Outcome(c4, TRUE, <<>>, FALSE)

\* a builder that returns empty data when CDOL1 is missing
buildGenACData_emptyData(c, terminalData) ==
  IF IsNull(c.cdol1)
    THEN Outcome(c, TRUE, <<>>, FALSE)
    ELSE Outcome(c, TRUE, dolBuildData(c.cdol1[1], terminalData), FALSE)

\* EMVProtocolEngine.buildGenACData
buildGenACData(c, terminalData) ==
  IF IsNull(c.cdol1)
    THEN Outcome([c EXCEPT
                    !.errors = Append(@, ErrorEntry("GENERATE_AC", "undefined", Undef,
                                                    "CDOL1 not available"))],
                 FALSE, <<>>, FALSE)
    ELSE Outcome(c, TRUE, dolBuildData(c.cdol1[1], terminalData), FALSE)

\* a Format 2 branch that does not store the cryptogram
genACFormat2_noCryptogram(c, acData) ==
  LET tlvData == parse(acData)
      c1 == [c EXCEPT !.cardData = addCardData(@, tlvData)]
      cidTag == findTag(tlvData, TAG_CID)
  IN IF ~IsNull(cidTag)
       THEN [c1 EXCEPT !.cryptogramType = Some(BitAnd(At(cidTag[1].value, 0), 192))]
       ELSE c1

\* processGenACResponse, Format 2 branch (template 77)
genACFormat2(c, acData) ==
  LET tlvData == parse(acData)
      c1 == [c EXCEPT !.cardData = addCardData(@, tlvData)]
      cidTag == findTag(tlvData, TAG_CID)
      c2 == IF ~IsNull(cidTag)
              THEN [c1 EXCEPT !.cryptogramType =
                                Some(BitAnd(At(cidTag[1].value, 0), 192))]
              ELSE c1
      acTag == findTag(tlvData, TAG_AC)
  IN IF ~IsNull(acTag)
       THEN [c2 EXCEPT !.cryptogram = Some(acTag[1].value)]
       ELSE c2

\* EMVProtocolEngine.processGenACResponse
processGenACResponse(c, response) ==
  IF ~isSuccess(response.sw)
    THEN Outcome([c EXCEPT
                    !.errors = Append(@, ErrorEntry("GENERATE_AC", "undefined", response.sw,
                                                    getStatusDescription(response.sw))),
                    !.state = "ERROR"],
                 FALSE, <<>>, FALSE)
  ELSE
    LET acData == response.data IN
    IF At(acData, 0) = TAG_FORMAT1
      THEN Outcome([c EXCEPT !.cryptogramType = Some(BitAnd(At(acData, 2), 192)),
                             !.cryptogram = Some(Slice(acData, 3, 11)),
                             !.state = "COMPLETION"],
                   TRUE, <<>>, FALSE)
    ELSE IF At(acData, 0) = TAG_FORMAT2
      THEN Outcome([genACFormat2(c, acData) EXCEPT !.state = "COMPLETION"],
                   TRUE, <<>>, FALSE)
    ELSE Outcome([c EXCEPT !.state = "COMPLETION"], TRUE, <<>>, FALSE)

\* EMVProtocolEngine.getCryptogramTypeName
getCryptogramTypeName(type) ==
  IF type = Some(AAC) THEN "AAC"
  ELSE IF type = Some(TC) THEN "TC"
  ELSE IF type = Some(ARQC) THEN "ARQC"
  ELSE "UNKNOWN"

\* EMVProtocolEngine.getTransactionResult
getTransactionResult(c) ==
  [success |-> c.state = "COMPLETION",
   state |-> c.state,
   kernel |-> c.kernel,
   cryptogramType |-> getCryptogramTypeName(c.cryptogramType),
   cryptogram |-> c.cryptogram,
   cardData |-> c.cardData,
   errors |-> c.errors,
   warnings |-> c.warnings,
   interopIssues |-> c.interopIssues]

\* ------------------------------------------------- responses the card sends
\* ResponseAPDU.success / ResponseAPDU.error
success(data) == [sw |-> SW_SUCCESS, data |-> data]
error(sw) == [sw |-> sw, data |-> <<>>]

AID_MC == <<160, 0, 0, 0, 4, 16, 16>>
PDOL_AMOUNT == <<159, 2, 6>>
CDOL_AMOUNT == <<159, 2, 6>>
CDOL2_ARC == <<138, 2>>
AIP_DEFAULT == <<57, 0>>
AFL_SFI1 == <<8, 1, 2, 0>>
AC_BYTES == <<17, 34, 51, 68, 85, 102, 119, 136>>
ATC_BYTES == <<0, 2>>
PAR_SHORT == <<80, 48>>

\* FCI of the selected application (CardEmulator.buildFCIResponse), with the
\* card's kernel identifier and, when given, a Form Factor Indicator
FciResponse(kernel, ffi) ==
  success(build(<<addConstructed(TAG_FCI, <<
    addPrimitive(TAG_DF_NAME, AID_MC),
    addConstructed(TAG_FCI_PROP,
      <<addPrimitive(TAG_PDOL, PDOL_AMOUNT)>>
      \o (IF ffi = <<>> THEN <<>> ELSE <<addPrimitive(TAG_FFI, ffi)>>)
      \o <<addConstructed(TAG_FCI_IDD, <<addPrimitive(TAG_KERNEL_ID, <<kernel>>)>>)>>)
  >>)>>))

\* GET PROCESSING OPTIONS response, Format 1: 80 LL AIP AFL
GpoFormat1(aip, afl) ==
  success(<<TAG_FORMAT1, Len(aip) + Len(afl)>> \o aip \o afl)

\* GET PROCESSING OPTIONS response, Format 2 (CardEmulator.processGPO)
GpoFormat2(aip, afl) ==
  success(build(<<addConstructed(TAG_FORMAT2, <<
    addPrimitive(TAG_AIP, aip),
    addPrimitive(TAG_AFL, afl)>>)>>))

GpoFormat2NoAfl == success(build(<<addConstructed(TAG_FORMAT2, <<
    addPrimitive(TAG_AIP, AIP_DEFAULT)>>)>>))

GpoFormat2NoAip == success(build(<<addConstructed(TAG_FORMAT2, <<
    addPrimitive(TAG_AFL, AFL_SFI1)>>)>>))

\* READ RECORD responses (CardEmulator.processReadRecord): template 70
RecordCdol == success(build(<<addConstructed(TAG_RECORD, <<
    addPrimitive(TAG_CDOL1, CDOL_AMOUNT),
    addPrimitive(TAG_CDOL2, CDOL2_ARC)>>)>>))

RecordPan == success(build(<<addConstructed(TAG_RECORD, <<
    addPrimitive(TAG_PAN, <<84, 19>>)>>)>>))

RecordPar == success(build(<<addConstructed(TAG_RECORD, <<
    addPrimitive(TAG_PAR, PAR_SHORT)>>)>>))

\* GENERATE AC response, Format 2 (CardEmulator.processGenerateAC)
GenACFormat2(cid) ==
  success(build(<<addConstructed(TAG_FORMAT2, <<
    addPrimitive(TAG_CID, <<cid>>),
    addPrimitive(TAG_ATC, ATC_BYTES),
    addPrimitive(TAG_AC, AC_BYTES)>>)>>))

\* GENERATE AC response, Format 1: 80 LL CID ATC AC
GenACFormat1(cid) ==
  success(<<TAG_FORMAT1, 11, cid>> \o ATC_BYTES \o AC_BYTES)

\* the responses a call may be given, by the command they answer: a failure,
\* the well-formed responses, and success responses that are malformed
SelectResponses ==
  { error(SW_FILE_NOT_FOUND),
    FciResponse(KERNEL_C8, <<32, 119, 0, 0>>) }

\* a success response that is neither Format 1 nor Format 2
GpoUnknownFormat == success(<<TAG_RECORD, 0>>)

GpoResponses ==
  { error(SW_CONDITIONS_NOT_SATISFIED),
    success(<<>>),
    GpoFormat1(AIP_DEFAULT, AFL_SFI1),
    GpoFormat2(AIP_DEFAULT, AFL_SFI1),
    GpoFormat2NoAfl }

ReadResponses ==
  { error(SW_RECORD_NOT_FOUND), RecordCdol }

\* what a card may answer the terminal: the responses above and further
\* malformed or unusual ones
CardGpoResponses == GpoResponses \cup {GpoUnknownFormat}

CardReadResponses == ReadResponses \cup {RecordPar}

\* a CID whose two high bits are both set (reserved by EMV)
CID_RFU == TC + ARQC

GenACResponses ==
  { error(SW_CONDITIONS_NOT_SATISFIED),
    GenACFormat2(ARQC),
    GenACFormat2(CID_RFU) }

\* the (SFI, record) pairs a READ RECORD may be for
ReadTargets == { <<1, 1>> }

\* n.toString().padStart(2 * k, '0') read as hex: k bytes of packed decimal
RECURSIVE bcdBytes(_, _)
bcdBytes(n, k) ==
  IF k = 0 THEN <<>>
  ELSE bcdBytes(n \div 100, k - 1) \o <<((n % 100) \div 10) * 16 + (n % 10)>>

\* TerminalEmulator.buildTerminalData: the values the DOLs of the cards
\* modelled ask for (amount 0 stands for an absent amount: amount || 100).
\* The date (9A) is that of one day, 3 November 2026, and the unpredictable
\* number (9F37) is the one of its values that the DOL's zero padding gives.
buildTerminalData(transactionAmount) ==
  (40706 :> bcdBytes(IF transactionAmount = 0 THEN 100 ELSE transactionAmount, 6))
  @@ (40707 :> bcdBytes(0, 6))
  @@ (40730 :> <<8, 64>>) @@ (149 :> <<0, 0, 0, 0, 0>>) @@ (24362 :> <<8, 64>>)
  @@ (154 :> <<38, 17, 3>>) @@ (156 :> <<0>>) @@ (40806 :> <<54, 0, 64, 0>>)

\* the terminal data of a transaction that names no amount
TerminalData == buildTerminalData(0)

\* ----------------------------------------------------------- EMVCommands
\* the commands the terminal sends; data is the command data field
selectCommand(aid) == [ins |-> "SELECT", p1 |-> 4, p2 |-> 0, data |-> aid]

PPSE_NAME == <<50, 80, 65, 89, 46, 83, 89, 83, 46, 68, 68, 70, 48, 49>>

selectPPSE == selectCommand(PPSE_NAME)

\* EMVCommands.getProcessingOptions wraps the data it is given in tag 83
getProcessingOptions(pdolData) ==
  [ins |-> "GET_PROCESSING_OPTIONS", p1 |-> 0, p2 |-> 0,
   data |-> <<131, Len(pdolData)>> \o pdolData]

\* EMVCommands.readRecord
readRecord(recordNumber, sfi) ==
  [ins |-> "READ_RECORD", p1 |-> recordNumber, p2 |-> sfi * 8 + 4, data |-> <<>>]

\* EMVCommands.generateAC
generateAC(cryptogramType, cdolData) ==
  [ins |-> "GENERATE_AC", p1 |-> cryptogramType, p2 |-> 0, data |-> cdolData]

\* EMVProtocolEngine.generateReadCommands
RECURSIVE readCommandsOfEntry(_, _)
readCommandsOfEntry(entry, rec) ==
  IF rec = Undef \/ entry.lastRecord = Undef \/ ~(rec <= entry.lastRecord) THEN <<>>
  ELSE <<[command |-> readRecord(rec, entry.sfi),
          sfi |-> entry.sfi,
          record |-> rec,
          includeInODA |-> entry.numODARecords # Undef
                           /\ rec - entry.firstRecord < entry.numODARecords]>>
       \o readCommandsOfEntry(entry, rec + 1)

RECURSIVE readCommandsOfAfl(_)
readCommandsOfAfl(afl) ==
  IF afl = <<>> THEN <<>>
  ELSE readCommandsOfEntry(Head(afl), Head(afl).firstRecord)
       \o readCommandsOfAfl(Tail(afl))

\* a generator whose loop stops before lastRecord
generateReadCommands_exclusive(c) ==
  IF IsNull(c.afl) THEN <<>>
  ELSE readCommandsOfAfl([i \in DOMAIN c.afl[1] |->
                            [c.afl[1][i] EXCEPT !.lastRecord = @ - 1]])

generateReadCommands(c) ==
  IF IsNull(c.afl) THEN <<>> ELSE readCommandsOfAfl(c.afl[1])

\* ------------------------------------------------------- TerminalEmulator
\* TerminalConfiguration, as the TerminalFactory builds it
ModernTerminal ==
  [supportedKernels |-> {2, 3, 4, 5, 6, 7, 8}, supportsC8 |-> TRUE,
   legacyMode |-> FALSE, legacyNetworkPreference |-> "none"]

LegacyVisaTerminal ==
  [supportedKernels |-> {3, 2}, supportsC8 |-> FALSE,
   legacyMode |-> TRUE, legacyNetworkPreference |-> "VISA"]

C8FallbackTerminal ==
  [supportedKernels |-> {2, 3}, supportsC8 |-> FALSE,
   legacyMode |-> FALSE, legacyNetworkPreference |-> "none"]

Configs == {ModernTerminal, LegacyVisaTerminal, C8FallbackTerminal}

CONTACTLESS_CVM_LIMIT == 5000
FLOOR_LIMIT == 0
TAC_DENIAL == <<0, 0, 0, 0, 0>>
TAC_ONLINE == <<252, 80, 168, 0, 0>>
IAC_DENIAL_DEFAULT == <<0, 0, 0, 0, 0>>
IAC_ONLINE_DEFAULT == <<248, 80, 164, 152, 0>>

\* TerminalConfiguration.supportsKernel
supportsKernel(cfg, kernelId) == kernelId \in cfg.supportedKernels

\* x | y on bytes
RECURSIVE BitOr(_, _)
BitOr(a, b) ==
  IF a <= 0 THEN (IF b <= 0 THEN 0 ELSE b)
  ELSE IF b <= 0 THEN a
  ELSE (IF a % 2 = 1 \/ b % 2 = 1 THEN 1 ELSE 0) + 2 * BitOr(a \div 2, b \div 2)

\* parseInt(valueHex, 16): NaN (Undef) for the empty string
RECURSIVE parseIntHex(_)
parseIntHex(bytes) ==
  IF bytes = <<>> THEN Undef
  ELSE IF Len(bytes) = 1 THEN bytes[1]
  ELSE parseIntHex(SubSeq(bytes, 1, Len(bytes) - 1)) * 256 + bytes[Len(bytes)]

\* aid.startsWith(prefix), both spelled in whole bytes
startsWith(bytes, prefix) ==
  Len(bytes) >= Len(prefix) /\ SubSeq(bytes, 1, Len(prefix)) = prefix

\* TerminalEmulator.determineKernelFromAID
determineKernelFromAID(aid) ==
  IF startsWith(aid, <<160, 0, 0, 0, 4>>) THEN 2
  ELSE IF startsWith(aid, <<160, 0, 0, 0, 3>>) THEN 3
  ELSE IF startsWith(aid, <<160, 0, 0, 0, 37>>) THEN 4
  ELSE IF startsWith(aid, <<160, 0, 0, 0, 101>>) THEN 5
  ELSE IF startsWith(aid, <<160, 0, 0, 1, 82>>) THEN 6
  ELSE IF startsWith(aid, <<160, 0, 0, 3, 51>>) THEN 7
  ELSE 2

\* the applications of the PPSE directory (tag 61 entries with an AID)
RECURSIVE applicationsOf(_)
applicationsOf(directoryEntries) ==
  IF directoryEntries = <<>> THEN <<>>
  ELSE LET entry == Head(directoryEntries)
           aid == findTag(entry.children, TAG_ADF_NAME)
           priority == findTag(entry.children, TAG_PRIORITY)
           kernelId == findTag(entry.children, TAG_KERNEL_ID)
       IN (IF ~IsNull(aid)
             THEN <<[aid |-> aid[1].value,
                     priority |-> IF ~IsNull(priority)
                                    THEN parseIntHex(priority[1].value) ELSE 255,
                     kernelId |-> IF ~IsNull(kernelId)
                                    THEN Some(parseIntHex(kernelId[1].value))
                                    ELSE Null]>>
             ELSE <<>>)
          \o applicationsOf(Tail(directoryEntries))

\* applications.sort((a, b) => a.priority - b.priority): stable insertion
RECURSIVE insertByPriority(_, _)
insertByPriority(sorted, app) ==
  IF sorted = <<>> THEN <<app>>
  ELSE LET lastApp == sorted[Len(sorted)]
       IN IF lastApp.priority # Undef /\ app.priority # Undef
             /\ app.priority < lastApp.priority
            THEN insertByPriority(SubSeq(sorted, 1, Len(sorted) - 1), app)
                 \o <<lastApp>>
            ELSE Append(sorted, app)

RECURSIVE sortByPriority(_)
sortByPriority(apps) ==
  IF apps = <<>> THEN <<>>
  ELSE insertByPriority(sortByPriority(SubSeq(apps, 1, Len(apps) - 1)),
                        apps[Len(apps)])

\* app.kernelId || determineKernelFromAID(app.aid)
kernelToUse(app) ==
  IF ~IsNull(app.kernelId) /\ app.kernelId[1] # Undef /\ app.kernelId[1] # 0
    THEN app.kernelId[1]
    ELSE determineKernelFromAID(app.aid)

\* the first application whose kernel the terminal supports, or null
RECURSIVE firstSupported(_, _)
firstSupported(cfg, apps) ==
  IF apps = <<>> THEN Null
  ELSE IF supportsKernel(cfg, kernelToUse(Head(apps)))
          \/ (cfg.supportsC8 /\ kernelToUse(Head(apps)) = KERNEL_C8)
    THEN Some(Head(apps))
  ELSE firstSupported(cfg, Tail(apps))

\* TerminalEmulator.selectApplicationFromPPSE: the context it leaves and the
\* selected application, or null
selectApplicationFromPPSE(cfg, ppseResponse, c) ==
  LET tlvData == parse(ppseResponse.data)
      c1 == [c EXCEPT !.cardData = addCardData(@, tlvData)]
      applications == sortByPriority(applicationsOf(findAllTags(tlvData, TAG_DIR_ENTRY)))
      chosen == firstSupported(cfg, applications)
  IN IF ~IsNull(chosen)
       THEN [ctx |-> [c1 EXCEPT !.kernel = Some(kernelToUse(chosen[1])),
                                !.selectedAID = Some(chosen[1].aid)],
             app |-> chosen]
     ELSE IF cfg.legacyMode /\ Len(applications) > 0
       THEN [ctx |-> recordInteropIssue(
                       [c1 EXCEPT !.kernel = Some(determineKernelFromAID(applications[1].aid)),
                                  !.selectedAID = Some(applications[1].aid)],
                       "LEGACY_FALLBACK", "WARNING"),
             app |-> Some(applications[1])]
     ELSE [ctx |-> c1, app |-> Null]

\* TerminalEmulator.checkKernelFallback
checkKernelFallback(cfg, c, selectedApp) ==
  LET requested == selectedApp.kernelId
      truthy == ~IsNull(requested) /\ requested[1] # Undef /\ requested[1] # 0
      c1 == IF truthy /\ requested # c.kernel
              THEN recordInteropIssue(c, "KERNEL_MISMATCH", "WARNING")
              ELSE c
  IN IF requested = Some(KERNEL_C8) /\ ~cfg.supportsC8
       THEN recordInteropIssue(c1, "C8_NOT_SUPPORTED", "WARNING")
       ELSE c1

\* TerminalEmulator.validateFFI (the terminal's own check)
terminalValidateFFI(c, ffi) ==
  LET c1 == IF Len(ffi) < 4
              THEN recordInteropIssue(c, "FFI_INVALID_LENGTH", "ERROR")
              ELSE c
  IN IF ~(BitAnd(At(ffi, 1), 15) \in 0..6)
       THEN recordInteropIssue(c1, "FFI_UNKNOWN_FORM_FACTOR", "WARNING")
       ELSE c1

\* the hex digits of a buffer
RECURSIVE hexDigits(_)
hexDigits(bytes) ==
  IF bytes = <<>> THEN <<>>
  ELSE <<Head(bytes) \div 16, Head(bytes) % 16>> \o hexDigits(Tail(bytes))

\* track2Hex.includes('3D')
includes3D(bytes) ==
  LET d == hexDigits(bytes)
  IN \E i \in 1..(Len(d) - 1) : d[i] = 3 /\ d[i + 1] = 13

MAX_TRACK2_LENGTH == 39

\* TerminalEmulator.validateTrack2
validateTrack2(c, track2) ==
  LET c1 == IF includes3D(track2)
              THEN recordInteropIssue(c, "TRACK2_SEPARATOR", "WARNING")
              ELSE c
  IN IF Len(track2) > MAX_TRACK2_LENGTH
       THEN recordInteropIssue(c1, "TRACK2_LENGTH", "WARNING")
       ELSE c1

\* TerminalEmulator.checkNetworkPreferenceEnforcement
checkNetworkPreferenceEnforcement(cfg, c) ==
  IF cfg.legacyNetworkPreference = "VISA"
     /\ ~startsWith(c.selectedAID[1], <<160, 0, 0, 0, 3>>)
    THEN recordInteropIssue(c, "NETWORK_PREFERENCE_MISMATCH", "INFO")
    ELSE c

\* a card value that is present and not the empty string
Truthy(opt) == ~IsNull(opt) /\ opt[1] # <<>>

\* TerminalEmulator.validateFields (the factory terminals modelled carry no
\* custom field validators)
validateFields(cfg, c) ==
  LET par == getCardData(c, TAG_PAR)
      c1 == IF Truthy(par) /\ cfg.legacyMode
              THEN recordInteropIssue(c, "LEGACY_PAR_HANDLING", "WARNING")
              ELSE c
      ffi == getCardData(c1, TAG_FFI)
      c2 == IF Truthy(ffi) THEN terminalValidateFFI(c1, ffi[1]) ELSE c1
      track2 == getCardData(c2, 87)
      c3 == IF Truthy(track2) THEN validateTrack2(c2, track2[1]) ELSE c2
  IN IF cfg.legacyNetworkPreference # "none"
       THEN checkNetworkPreferenceEnforcement(cfg, c3)
       ELSE c3

\* TerminalEmulator.performCVM; the terminal type is ATTENDED_ONLINE
performCVM(c, amount) ==
  IF ~Truthy(getCardData(c, 142)) THEN "NO_CVM"
  ELSE IF amount # 0 /\ amount < CONTACTLESS_CVM_LIMIT THEN "NO_CVM_REQUIRED"
  ELSE "SIGNATURE"

\* TerminalEmulator.performTerminalRiskManagement; random is the outcome of
\* Math.random() < 0.1
performTerminalRiskManagement(c, amount, random) ==
  LET tvr == <<0, 0, 0,
               (IF amount > FLOOR_LIMIT THEN 128 ELSE 0) + (IF random THEN 32 ELSE 0),
               0>>
  IN [c EXCEPT !.tvr = tvr, !.cardData = MapSet(@, 149, tvr)]

\* TerminalEmulator.determineTerminalAction
determineTerminalAction(c) ==
  LET tvr == c.tvr
      cardDenial == getCardData(c, 40718)
      cardOnline == getCardData(c, 40719)
      iacDenial == IF Truthy(cardDenial) THEN cardDenial[1] ELSE IAC_DENIAL_DEFAULT
      iacOnline == IF Truthy(cardOnline) THEN cardOnline[1] ELSE IAC_ONLINE_DEFAULT
  IN IF \E i \in 0..4 :
          BitAnd(BitAnd(At(tvr, i), At(iacDenial, i)), At(TAC_DENIAL, i)) # 0
       THEN AAC
     ELSE IF \E i \in 0..4 :
          BitAnd(At(tvr, i), BitOr(At(iacOnline, i), At(TAC_ONLINE, i))) # 0
       THEN ARQC
     ELSE TC

\* an error result that records the error and leaves ctx.state as it was
buildErrorResult_keepsState(c, errorCode, response) ==
  [c EXCEPT !.errors = Append(@,
              IF IsNull(response)
                THEN ErrorEntry("undefined", errorCode, Undef, errorCode)
                ELSE ErrorEntry("undefined", errorCode, response[1].sw,
                                getStatusDescription(response[1].sw)))]

\* TerminalEmulator.buildErrorResult: the context it leaves; the result
\* returned is getTransactionResult of it
buildErrorResult(c, errorCode, response) ==
  [c EXCEPT !.state = "ERROR",
            !.errors = Append(@,
              IF IsNull(response)
                THEN ErrorEntry("undefined", errorCode, Undef, errorCode)
                ELSE ErrorEntry("undefined", errorCode, response[1].sw,
                                getStatusDescription(response[1].sw)))]

\* ------------------------------------------------------------------- state
VARIABLES
  ctx,      \* the TransactionContext driven by the engine (detectInteropIssues on)
  ctxOff,   \* the same calls on an engine built with detectInteropIssues off
  hist,     \* what the engine calls on ctx have been so far
  pc,       \* position of executeContactlessTransaction
  sent,     \* the commands sent to the card, in order
  last,     \* the latest exchange with the card: command, response, exception
  pending,  \* the READ RECORD commands still to send
  genac,    \* the cryptogram request and CDOL1 data of the GENERATE AC to send
  result,   \* what executeContactlessTransaction returned, or null
  transactionHistory,  \* TerminalEmulator.transactionHistory
  config,   \* the terminal's TerminalConfiguration
  amount,   \* transactionData.amount (0 when absent)
  orch,     \* a TestOrchestrator running a suite
  runA,     \* a transaction between a terminal emulator and a card emulator
  runB,     \* a second such transaction, with its own terminal and card
  cards,    \* the card emulators of these transactions, by reference
  probe     \* the input and the output of a codec operation

vars == <<ctx, ctxOff, hist, pc, sent, last, pending, genac, result,
          transactionHistory, config, amount, orch, runA, runB, cards, probe>>

\* the engine's own context and the transaction driven on it
engineVars == <<ctx, ctxOff, hist, pc, sent, last, pending, genac, result,
                transactionHistory, config, amount>>

\* the variables of the other components
auxVars == <<orch, runA, runB, cards, probe>>

txnVars == <<pc, sent, last, pending, genac, result, transactionHistory, config, amount>>

NoCall == [op |-> "none", response |-> success(<<>>), threw |-> FALSE]

NoHist ==
  [selectOk |-> FALSE, gpoOk |-> FALSE, cdol1Read |-> FALSE, happy |-> 0,
   sameReturns |-> TRUE]

\* the lists of a context stay within the bounds of the model
Bounded(c) ==
  /\ Len(c.errors) <= MaxErrors
  /\ Len(c.warnings) <= MaxWarnings
  /\ Len(c.records) <= MaxRecords
  /\ Len(c.interopIssues) <= MaxIssues

\* the defined cryptogram types
DefinedTypes == {AAC, TC, ARQC}

\* the four responses of the happy path, in order: SELECT success; GPO
\* Format 2 with AIP and AFL; READ RECORD with CDOL1; GENERATE AC Format 2
\* with CID and AC
HappyStep(k, op, r) ==
  LET tlv == parse(r.data) IN
  /\ isSuccess(r.sw)
  /\ \/ k = 1 /\ op = "processSelectResponse"
     \/ /\ k = 2 /\ op = "processGPOResponse"
        /\ At(r.data, 0) = TAG_FORMAT2
        /\ ~IsNull(findTag(tlv, TAG_AIP)) /\ ~IsNull(findTag(tlv, TAG_AFL))
     \/ /\ k = 3 /\ op = "processReadRecordResponse"
        /\ ~IsNull(findTag(tlv, TAG_CDOL1))
     \/ /\ k = 4 /\ op = "processGenACResponse"
        /\ At(r.data, 0) = TAG_FORMAT2
        /\ ~IsNull(findTag(tlv, TAG_CID)) /\ ~IsNull(findTag(tlv, TAG_AC))

\* the two engines returned the same from a call
SameReturn(o, oOff) ==
  o.ok = oOff.ok /\ o.data = oOff.data /\ o.threw = oOff.threw

\* bookkeeping after a call op(r) that returned o, and oOff on the twin
NextHist(op, r, o, oOff) ==
  [selectOk |-> hist.selectOk \/ (op = "processSelectResponse" /\ o.ok),
   gpoOk |-> hist.gpoOk \/ (op = "processGPOResponse" /\ o.ok),
   cdol1Read |-> hist.cdol1Read
                 \/ (op = "processReadRecordResponse" /\ o.ok
                     /\ ~IsNull(findTag(parse(r.data), TAG_CDOL1))),
   happy |-> IF hist.happy \in 0..3 /\ HappyStep(hist.happy + 1, op, r)
               THEN hist.happy + 1
               ELSE -1,
   sameReturns |-> hist.sameReturns /\ SameReturn(o, oOff)]

\* one engine call: o is its outcome on ctx, oOff its outcome on ctxOff
Record(op, r, o, oOff) ==
  /\ ctx' = o.ctx
  /\ Bounded(ctx')
  /\ ctxOff' = oOff.ctx
  /\ hist' = NextHist(op, r, o, oOff)
  /\ UNCHANGED <<txnVars, auxVars>>

\* ------------------------------------------------ engine calls on a context
CallProcessSelectResponse ==
  \E r \in SelectResponses :
    Record("processSelectResponse", r,
           processSelectResponse(ctx, r, TRUE),
           processSelectResponse(ctxOff, r, FALSE))

CallBuildGPOData ==
  /\ ctx' = buildGPOData(ctx, TerminalData).ctx
  /\ ctxOff' = buildGPOData(ctxOff, TerminalData).ctx
  /\ hist' = [hist EXCEPT !.sameReturns =
                 @ /\ SameReturn(buildGPOData(ctx, TerminalData),
                                 buildGPOData(ctxOff, TerminalData))]
  /\ UNCHANGED <<txnVars, auxVars>>

CallProcessGPOResponse ==
  \E r \in GpoResponses :
    Record("processGPOResponse", r,
           processGPOResponse(ctx, r),
           processGPOResponse(ctxOff, r))

CallProcessReadRecordResponse ==
  \E r \in ReadResponses, t \in ReadTargets :
    Record("processReadRecordResponse", r,
           processReadRecordResponse(ctx, r, t[1], t[2], TRUE),
           processReadRecordResponse(ctxOff, r, t[1], t[2], FALSE))

CallBuildGenACData ==
  /\ ctx' = buildGenACData(ctx, TerminalData).ctx
  /\ Bounded(ctx')
  /\ ctxOff' = buildGenACData(ctxOff, TerminalData).ctx
  /\ hist' = [hist EXCEPT
                 !.happy = IF buildGenACData(ctx, TerminalData).ok THEN @ ELSE -1,
                 !.sameReturns =
                   @ /\ SameReturn(buildGenACData(ctx, TerminalData),
                                   buildGenACData(ctxOff, TerminalData))]
  /\ UNCHANGED <<txnVars, auxVars>>

CallProcessGenACResponse ==
  \E r \in GenACResponses :
    Record("processGenACResponse", r,
           processGenACResponse(ctx, r),
           processGenACResponse(ctxOff, r))

Init ==
  /\ ctx = NewContext
  /\ ctxOff = NewContext
  /\ hist = NoHist
  /\ pc = "idle"
  /\ sent = <<>>
  /\ last = NoCall
  /\ pending = <<>>
  /\ genac = Null
  /\ result = Null
  /\ transactionHistory = <<>>
  /\ config = ModernTerminal
  /\ amount = 0
  /\ orch = Null /\ runA = Null /\ runB = Null /\ cards = Null /\ probe = Null

Next ==
  \/ CallProcessSelectResponse
  \/ CallBuildGPOData
  \/ CallProcessGPOResponse
  \/ CallProcessReadRecordResponse
  \/ CallBuildGenACData
  \/ CallProcessGenACResponse

Spec == Init /\ [][Next]_vars

\* ------------------------------------ executeContactlessTransaction
\* PPSE directory with one entry per application (CardEmulator.buildPPSEResponse)
RECURSIVE directoryEntries(_)
directoryEntries(apps) ==
  IF apps = <<>> THEN <<>>
  ELSE <<addConstructed(TAG_DIR_ENTRY, <<
           addPrimitive(TAG_ADF_NAME, Head(apps).aid),
           addPrimitive(TAG_PRIORITY, <<1>>),
           addPrimitive(TAG_KERNEL_ID, <<Head(apps).kernel>>)>>)>>
       \o directoryEntries(Tail(apps))

PpseResponse(apps) ==
  success(build(<<addConstructed(TAG_FCI, <<
    addPrimitive(TAG_DF_NAME, PPSE_NAME),
    addConstructed(TAG_FCI_PROP, <<
      addConstructed(TAG_FCI_IDD, directoryEntries(apps))>>)>>)>>))

PpseResponses ==
  { error(SW_FILE_NOT_FOUND),
    success(<<>>),
    PpseResponse(<<[aid |-> AID_MC, kernel |-> KERNEL_C2]>>),
    PpseResponse(<<[aid |-> AID_MC, kernel |-> KERNEL_C8]>>) }

Amounts == {0, 1000}

\* return this.buildErrorResult(ctx, errorCode, response)
ReturnError(c, errorCode, response) ==
  /\ ctx' = buildErrorResult(c, errorCode, response)
  /\ result' = Some(getTransactionResult(buildErrorResult(c, errorCode, response)))
  /\ pc' = "done"
  /\ UNCHANGED <<genac, transactionHistory>>

\* steps 5 to 9 up to the GENERATE AC command: field validation, CVM, risk
\* management, action analysis, buildGenACData
AfterReads(c) ==
  \E random \in BOOLEAN :
    LET c1 == validateFields(config, c)
        c2 == [c1 EXCEPT !.cvmResult = Some(performCVM(c1, amount))]
        c3 == performTerminalRiskManagement(c2, amount, random)
        cryptogramRequest == determineTerminalAction(c3)
        genACData == buildGenACData(c3, buildTerminalData(amount))
    IN IF ~genACData.ok
         THEN ReturnError(genACData.ctx, "GENERATE_AC_BUILD_FAILED", Null)
         ELSE /\ ctx' = c3
              /\ genac' = Some([request |-> cryptogramRequest, data |-> genACData.data])
              /\ pc' = "genAC"
              /\ UNCHANGED <<result, transactionHistory>>

\* the exchange a step of the transaction made: the command sent, the
\* response received, and whether processing the response threw
Exchange(op, r, threw) ==
  [NoCall EXCEPT !.op = op, !.response = r, !.threw = threw]

\* step 1: SELECT PPSE, application selection, kernel fallback check
TxnSelectPPSE ==
  /\ pc = "selectPPSE"
  /\ sent' = Append(sent, selectPPSE)
  /\ \E r \in PpseResponses :
       /\ last' = Exchange("SELECT_PPSE", r, FALSE)
       /\ IF ~isSuccess(r.sw)
            THEN ReturnError(ctx, "PPSE_SELECT_FAILED", Some(r))
          ELSE LET s == selectApplicationFromPPSE(config, r, ctx) IN
            IF IsNull(s.app)
              THEN ReturnError(s.ctx, "NO_SUPPORTED_APPLICATION", Null)
              ELSE /\ ctx' = checkKernelFallback(config, s.ctx, s.app[1])
                   /\ pc' = "selectApp"
                   /\ UNCHANGED <<genac, result, transactionHistory>>
  /\ UNCHANGED <<pending, config, amount, ctxOff, hist, auxVars>>

\* step 2: SELECT the application
TxnSelectApplication ==
  /\ pc = "selectApp"
  /\ sent' = Append(sent, selectCommand(ctx.selectedAID[1]))
  /\ \E r \in SelectResponses :
       /\ last' = Exchange("SELECT", r, FALSE)
       /\ IF ~isSuccess(r.sw)
            THEN ReturnError(ctx, "APPLICATION_SELECT_FAILED", Some(r))
            ELSE /\ ctx' = processSelectResponse(ctx, r, TRUE).ctx
                 /\ pc' = "gpo"
                 /\ UNCHANGED <<genac, result, transactionHistory>>
  /\ UNCHANGED <<pending, config, amount, ctxOff, hist, auxVars>>

\* step 3: GET PROCESSING OPTIONS; step 4 begins.  An exception ends the run
\* in the catch block.
TxnGPO ==
  /\ pc = "gpo"
  /\ sent' = Append(sent, getProcessingOptions(buildGPOData(ctx, buildTerminalData(amount)).data))
  /\ \E r \in CardGpoResponses :
       /\ last' = Exchange("GET_PROCESSING_OPTIONS", r,
                           isSuccess(r.sw) /\ processGPOResponse(ctx, r).threw)
       /\ IF ~isSuccess(r.sw)
            THEN ReturnError(ctx, "GPO_FAILED", Some(r)) /\ UNCHANGED pending
          ELSE LET o == processGPOResponse(ctx, r) IN
            IF o.threw
              THEN /\ ctx' = [ctx EXCEPT !.errors =
                                Append(@, ErrorEntry("EXECUTION", "undefined", Undef,
                                                     "TypeError"))]
                   /\ result' = Some(getTransactionResult(ctx'))
                   /\ pc' = "done"
                   /\ UNCHANGED <<pending, genac, transactionHistory>>
            ELSE IF generateReadCommands(o.ctx) = <<>>
              THEN AfterReads(o.ctx) /\ UNCHANGED pending
              ELSE /\ ctx' = o.ctx
                   /\ pending' = generateReadCommands(o.ctx)
                   /\ pc' = "read"
                   /\ UNCHANGED <<genac, result, transactionHistory>>
  /\ UNCHANGED <<config, amount, ctxOff, hist, auxVars>>

\* step 4: one READ RECORD of the loop; after the last one, steps 5 to 9
TxnReadRecord ==
  /\ pc = "read"
  /\ sent' = Append(sent, Head(pending).command)
  /\ pending' = Tail(pending)
  /\ \E r \in CardReadResponses :
       /\ last' = Exchange("READ_RECORD", r, FALSE)
       /\ LET c == processReadRecordResponse(ctx, r, Head(pending).sfi,
                                             Head(pending).record, TRUE).ctx
          IN IF Tail(pending) = <<>>
               THEN AfterReads(c)
               ELSE /\ ctx' = c
                    /\ UNCHANGED <<pc, genac, result, transactionHistory>>
  /\ UNCHANGED <<config, amount, ctxOff, hist, auxVars>>

\* step 9: GENERATE AC and the result
TxnGenerateAC ==
  /\ pc = "genAC"
  /\ sent' = Append(sent, generateAC(genac[1].request, genac[1].data))
  /\ \E r \in GenACResponses :
       /\ last' = Exchange("GENERATE_AC", r, FALSE)
       /\ IF ~isSuccess(r.sw)
            THEN ReturnError(ctx, "GENERATE_AC_FAILED", Some(r))
            ELSE /\ ctx' = processGenACResponse(ctx, r).ctx
                 /\ result' = Some(getTransactionResult(ctx'))
                 /\ transactionHistory' = Append(transactionHistory, getTransactionResult(ctx'))
                 /\ pc' = "done"
                 /\ UNCHANGED genac
  /\ UNCHANGED <<pending, config, amount, ctxOff, hist, auxVars>>

\* a terminal about to run executeContactlessTransaction on a fresh context
InitTxn ==
  /\ ctx = NewContext
  /\ ctxOff = NewContext
  /\ hist = NoHist
  /\ last = NoCall
  /\ pc = "selectPPSE"
  /\ sent = <<>>
  /\ pending = <<>>
  /\ genac = Null
  /\ result = Null
  /\ transactionHistory = <<>>
  /\ config \in Configs
  /\ amount \in Amounts
  /\ orch = Null /\ runA = Null /\ runB = Null /\ cards = Null /\ probe = Null

NextTxn ==
  \/ TxnSelectPPSE
  \/ TxnSelectApplication
  \/ TxnGPO
  \/ TxnReadRecord
  \/ TxnGenerateAC

SpecTxn == InitTxn /\ [][NextTxn]_vars

\* ------------------------------------------------------------ properties
IsPrefix(s, t) == Len(s) <= Len(t) /\ SubSeq(t, 1, Len(s)) = s

\* the responses with a status word that is not a success
FailureResponses ==
  { error(SW_FILE_NOT_FOUND), error(SW_RECORD_NOT_FOUND),
    error(SW_CONDITIONS_NOT_SATISFIED) }

\* the fields a fatal failure must leave alone
SameCardState(c, d) ==
  /\ c.cardData = d.cardData /\ c.warnings = d.warnings
  /\ c.interopIssues = d.interopIssues
  /\ c.aip = d.aip /\ c.afl = d.afl
  /\ c.cdol1 = d.cdol1 /\ c.cdol2 = d.cdol2
  /\ c.cryptogram = d.cryptogram

\* the transaction has ended in COMPLETION with a cryptogram of a defined type
Completed ==
  /\ ctx.state = "COMPLETION"
  /\ ~IsNull(ctx.cryptogram)
  /\ ~IsNull(ctx.cryptogramType) /\ ctx.cryptogramType[1] \in DefinedTypes

\* the CID the card sent does not have both of its two high bits set
CidDefined ==
  /\ ~IsNull(getCardData(ctx, TAG_CID))
  /\ BitAnd(At(getCardData(ctx, TAG_CID)[1], 0), 192) # 192

FatalOutcome(c, o, phase, r) ==
  /\ o.ok = FALSE /\ o.threw = FALSE
  /\ o.ctx.state = "ERROR"
  /\ o.ctx.errors = Append(c.errors, ErrorEntry(phase, "undefined", r.sw,
                                                getStatusDescription(r.sw)))
  /\ SameCardState(c, o.ctx)

\* C2: given a response whose status word is not a success,
\* processSelectResponse, processGPOResponse and processGenACResponse return
\* false, set state to ERROR, append exactly one entry (phase, status word,
\* description) to errors and leave cardData, warnings, interopIssues, aip,
\* afl, cdol1, cdol2 and cryptogram unchanged, from every reachable context.
C2_FatalFailure ==
  \A r \in FailureResponses :
    /\ FatalOutcome(ctx, processSelectResponse(ctx, r, TRUE), "SELECT", r)
    /\ FatalOutcome(ctx, processGPOResponse(ctx, r), "GPO", r)
    /\ FatalOutcome(ctx, processGenACResponse(ctx, r), "GENERATE_AC", r)

C2_Witness ==
  /\ ctx.state = "ERROR"
  /\ Len(ctx.errors) = 1 /\ ctx.errors[1].phase = "GENERATE_AC"
  /\ ctx.errors[1].sw = SW_CONDITIONS_NOT_SATISFIED
  /\ ~IsNull(ctx.aip) /\ ~IsNull(ctx.cdol1) /\ DOMAIN ctx.cardData # {}

\* C3: given a non-success response, processReadRecordResponse returns false
\* and appends exactly one entry to warnings, leaving state, errors, cardData,
\* records, cdol1 and cdol2 unchanged; and with CDOL1 known and one such
\* warning recorded a successful GENERATE AC response still ends in COMPLETION
\* with that one warning.
C3_ReadFailureNotFatal ==
  /\ \A r \in FailureResponses, t \in ReadTargets :
       LET o == processReadRecordResponse(ctx, r, t[1], t[2], TRUE) IN
       /\ o.ok = FALSE
       /\ Len(o.ctx.warnings) = Len(ctx.warnings) + 1
       /\ IsPrefix(ctx.warnings, o.ctx.warnings)
       /\ o.ctx.warnings[Len(o.ctx.warnings)].sw = r.sw
       /\ o.ctx.state = ctx.state /\ o.ctx.errors = ctx.errors
       /\ o.ctx.cardData = ctx.cardData /\ o.ctx.records = ctx.records
       /\ o.ctx.cdol1 = ctx.cdol1 /\ o.ctx.cdol2 = ctx.cdol2
  /\ (~IsNull(ctx.cdol1) /\ Len(ctx.warnings) = 1) =>
       \A r \in GenACResponses :
         isSuccess(r.sw) =>
           /\ processGenACResponse(ctx, r).ctx.state = "COMPLETION"
           /\ processGenACResponse(ctx, r).ctx.warnings = ctx.warnings

C3_Witness ==
  /\ ctx.state = "COMPLETION"
  /\ Len(ctx.warnings) = 1 /\ ctx.warnings[1].sw = SW_RECORD_NOT_FOUND
  /\ ctx.errors = <<>>
  /\ hist.cdol1Read /\ ~IsNull(ctx.cdol1) /\ ~IsNull(ctx.cryptogram)

\* C4: once ctx.state is COMPLETION or ERROR, no later engine call changes it.
C4_TerminalStates ==
  [][ctx.state \in {"COMPLETION", "ERROR"} => ctx'.state = ctx.state]_vars

\* C5: READ_APPLICATION_DATA is entered only after a successful
\* processSelectResponse on the context, and COMPLETION only after a
\* successful processGPOResponse and a read that populated CDOL1.
C5_NoStepSkipped ==
  /\ ctx.state = "READ_APPLICATION_DATA" => hist.selectOk
  /\ ctx.state = "COMPLETION" => hist.gpoOk /\ hist.cdol1Read

\* the commands whose failure is fatal to the transaction
FatalCommands == {"SELECT_PPSE", "SELECT", "GET_PROCESSING_OPTIONS", "GENERATE_AC"}

\* C6: in executeContactlessTransaction, a non-success response to SELECT
\* PPSE, SELECT, GET PROCESSING OPTIONS or GENERATE AC, or ctx.state becoming
\* ERROR, ends the run in that step: the result returned has state ERROR,
\* success false and at least one error, and no step (so no command) follows
\* once the run has returned.
C6_FatalStopsTransaction ==
  [][/\ pc # "done"
     /\ ((last'.op \in FatalCommands /\ ~isSuccess(last'.response.sw))
           \/ ctx'.state = "ERROR") =>
          /\ pc' = "done"
          /\ ~IsNull(result')
          /\ result'[1].state = "ERROR"
          /\ result'[1].success = FALSE
          /\ Len(result'[1].errors) >= 1]_vars

C6_Witness ==
  /\ pc = "done"
  /\ last.op = "GET_PROCESSING_OPTIONS" /\ ~isSuccess(last.response.sw)
  /\ Len(sent) = 3
  /\ result[1].state = "ERROR" /\ result[1].success = FALSE

\* the reads of the run are over and buildGenACData has been called
BuildReached ==
  /\ pc \in {"genAC", "done"}
  /\ ~last.threw
  /\ \/ last.op = "READ_RECORD"
     \/ last.op = "GET_PROCESSING_OPTIONS" /\ isSuccess(last.response.sw)

\* C7: while no READ RECORD response has supplied CDOL1, buildGenACData
\* returns null and records one error, no GENERATE AC command has been or is
\* about to be sent, and a run that got as far as building the command has
\* returned a result with state ERROR that carries that error.
C7_NoCdol1NoGenerateAC ==
  IsNull(ctx.cdol1) =>
    /\ buildGenACData(ctx, buildTerminalData(amount)).ok = FALSE
    /\ buildGenACData(ctx, buildTerminalData(amount)).ctx.errors =
         Append(ctx.errors, ErrorEntry("GENERATE_AC", "undefined", Undef,
                                       "CDOL1 not available"))
    /\ \A i \in 1..Len(sent) : sent[i].ins # "GENERATE_AC"
    /\ pc # "genAC"
    /\ BuildReached =>
         /\ pc = "done"
         /\ result[1].state = "ERROR"
         /\ \E i \in 1..Len(result[1].errors) :
              result[1].errors[i].message = "CDOL1 not available"

C7_Witness ==
  /\ pc = "done"
  /\ last.op = "READ_RECORD" /\ isSuccess(last.response.sw)
  /\ IsNull(ctx.cdol1)
  /\ Len(sent) = 5
  /\ result[1].state = "ERROR"

\* C8: after the same calls, an engine with detectInteropIssues on and one
\* with it off have returned the same values and hold contexts that differ
\* in interopIssues only; and interopIssues only ever grows.
C8_DetectionIsObservational ==
  /\ [](/\ [ctx EXCEPT !.interopIssues = <<>>] = [ctxOff EXCEPT !.interopIssues = <<>>]
        /\ hist.sameReturns)
  /\ [][/\ IsPrefix(ctx.interopIssues, ctx'.interopIssues)
        /\ IsPrefix(ctxOff.interopIssues, ctxOff'.interopIssues)]_vars

C8_Witness ==
  /\ ctx.interopIssues # ctxOff.interopIssues
  /\ Len(ctx.interopIssues) = 2
  /\ ctx.state = "COMPLETION" /\ ctxOff.state = "COMPLETION"

\* the AIP and AFL bytes the two GPO formats are compared on
AipInputs == { AIP_DEFAULT, <<0, 128>> }

\* AFLs of up to MaxAflEntries pieces: whole 4-byte groups alternating with a
\* 2-byte piece, so that some AFLs end in, or continue after, a partial group
AflPiece(i) == IF i % 2 = 1 THEN AFL_SFI1 ELSE <<24, 3>>

RECURSIVE AflOf(_)
AflOf(n) == IF n = 0 THEN <<>> ELSE AflOf(n - 1) \o AflPiece(n)

AflInputs == { AflOf(n) : n \in 0..MaxAflEntries }

\* C9: for the same AIP and AFL bytes, processGPOResponse given the Format 1
\* response and given the Format 2 response leaves the same ctx.aip, the same
\* parsed ctx.afl and state READ_APPLICATION_DATA, from every reachable context.
C9_GpoFormatsAgree ==
  \A aip \in AipInputs, afl \in AflInputs :
    LET f1 == processGPOResponse(ctx, GpoFormat1(aip, afl))
        f2 == processGPOResponse(ctx, GpoFormat2(aip, afl))
    IN /\ f1.ok /\ f2.ok
       /\ f1.ctx.aip = f2.ctx.aip /\ f1.ctx.aip = Some(aip)
       /\ f1.ctx.afl = f2.ctx.afl /\ f1.ctx.afl = Some(parseAFL(afl))
       /\ f1.ctx.state = "READ_APPLICATION_DATA"
       /\ f2.ctx.state = "READ_APPLICATION_DATA"

\* Format 1 has been processed (no tag 94 reached cardData) and left what
\* Format 2 leaves for the same bytes
C9_Witness ==
  /\ hist.gpoOk /\ ctx.state = "READ_APPLICATION_DATA"
  /\ ~(TAG_AFL \in DOMAIN ctx.cardData)
  /\ ctx.aip = Some(AIP_DEFAULT)
  /\ ctx.afl = processGPOResponse(NewContext, GpoFormat2(AIP_DEFAULT, AFL_SFI1)).ctx.afl
  /\ Len(ctx.afl[1]) = 1

\* C10: whenever processGPOResponse returns true and moves the state to
\* READ_APPLICATION_DATA, ctx.aip and ctx.afl are both non-null.
C10_GpoPopulatesAipAfl ==
  \A r \in GpoResponses :
    LET o == processGPOResponse(ctx, r) IN
    (o.ok /\ o.ctx.state = "READ_APPLICATION_DATA") =>
      (~IsNull(o.ctx.aip) /\ ~IsNull(o.ctx.afl))

\* C11: when processing a response throws during
\* executeContactlessTransaction, the exception reaches the caller: the run
\* returns no result and ctx.errors gets no entry for it.
C11_DecodeFailurePropagates ==
  last.threw =>
    /\ IsNull(result)
    /\ \A i \in 1..Len(ctx.errors) : ctx.errors[i].phase # "EXECUTION"

\* ---------------------------------------------------------------------------
\* The test orchestrator (src/core/test-orchestrator.js)
\* ---------------------------------------------------------------------------

MaxScenarios == 2

TestStatus == { "PASSED", "FAILED", "WARNING", "SKIPPED", "ERROR" }

IssueSeverity == { "CRITICAL", "ERROR", "WARNING", "INFO" }

\* What running a scenario's emulators does: creating them throws, the
\* scenario names no pair of components, the transaction throws, or it
\* returns a transaction result.
ScenarioRuns == { "CREATE_THROWS", "INVALID_CONFIG", "TXN_THROWS", "RETURNS" }

\* new TestScenario(options), with the run its configuration leads to;
\* expectedOutcome.cryptogramType keeps its default null and there is no
\* custom validation rule
TestScenario(run, txnSuccess, severities, maxInteropIssues) ==
  [ run              |-> run,
    transactionResult |-> [ success |-> txnSuccess, interopIssues |-> severities ],
    expectedOutcome  |-> [ transactionSuccess |-> TRUE,
                           maxInteropIssues |-> maxInteropIssues ] ]

Scenarios ==
  { TestScenario(run, FALSE, <<>>, 0) :
      run \in { "CREATE_THROWS", "INVALID_CONFIG", "TXN_THROWS" } }
  \cup
  { TestScenario("RETURNS", txnSuccess, severities, maxIssues) :
      txnSuccess \in BOOLEAN,
      severities \in { <<>>, <<"WARNING">>, <<"ERROR">>, <<"CRITICAL">> },
      maxIssues \in { 0, 1 } }

Suites == UNION { [ 1..n -> Scenarios ] : n \in 0..MaxScenarios }

\* the message of the Error a scenario's run throws
errorMessage(scenario) ==
  CASE scenario.run = "CREATE_THROWS"  -> "Unknown card factory"
    [] scenario.run = "INVALID_CONFIG" -> "Invalid scenario configuration"
    [] OTHER                           -> "Transaction failed"

\* new TestResult(scenario)
TestResult(scenarioId) ==
  [ scenarioId        |-> scenarioId,
    status            |-> "SKIPPED",
    transactionResult |-> Null,
    interopIssues     |-> <<>>,
    validationResults |-> <<>>,
    error             |-> Null ]

\* TestOrchestrator.runValidations: the built-in rules of expectedOutcome
runValidations(scenario, transactionResult) ==
  << [ rule   |-> "TRANSACTION_SUCCESS",
       passed |-> transactionResult.success
                    = scenario.expectedOutcome.transactionSuccess ],
     [ rule   |-> "MAX_INTEROP_ISSUES",
       passed |-> Len(transactionResult.interopIssues)
                    <= scenario.expectedOutcome.maxInteropIssues ] >>

\* TestResult.calculateStatus
calculateStatus(res) ==
  IF ~IsNull(res.error) THEN [res EXCEPT !.status = "ERROR"]
  ELSE IF \/ \E i \in 1..Len(res.interopIssues) :
                res.interopIssues[i] = "CRITICAL"
          \/ \E i \in 1..Len(res.validationResults) :
                ~res.validationResults[i].passed
       THEN [res EXCEPT !.status = "FAILED"]
  ELSE IF \E i \in 1..Len(res.interopIssues) :
                res.interopIssues[i] = "ERROR"
       THEN [res EXCEPT !.status = "WARNING"]
  ELSE [res EXCEPT !.status = "PASSED"]

\* the try block of runScenario and its catch: the result before its status
\* is calculated
tryScenario(res, scenario) ==
  IF scenario.run = "RETURNS"
  THEN [res EXCEPT
          !.transactionResult = Some(scenario.transactionResult),
          !.interopIssues = scenario.transactionResult.interopIssues,
          !.validationResults =
             runValidations(scenario, scenario.transactionResult)]
  ELSE [res EXCEPT !.error = Some([message |-> errorMessage(scenario)])]

\* runScenario without its catch: the error leaves runScenario
runScenario_noCatch(results, scenarioId, scenario) ==
  IF scenario.run = "RETURNS"
  THEN LET res == calculateStatus(tryScenario(TestResult(scenarioId), scenario))
       IN [ results |-> Append(results, res), result |-> Some(res),
            threw |-> FALSE ]
  ELSE [ results |-> results, result |-> Null, threw |-> TRUE ]

\* TestOrchestrator.runScenario, no event handler being registered: the
\* orchestrator's results afterwards, the value returned, and whether an
\* error left the method
runScenario(results, scenarioId, scenario) ==
  LET res == calculateStatus(tryScenario(TestResult(scenarioId), scenario))
  IN [ results |-> Append(results, res), result |-> Some(res),
       threw |-> FALSE ]

\* the summary counter runSuite increments for a status
summaryKey(status) ==
  CASE status = "PASSED"  -> "passed"
    [] status = "FAILED"  -> "failed"
    [] status = "WARNING" -> "warnings"
    [] status = "ERROR"   -> "errors"
    [] OTHER              -> "skipped"

\* new TestOrchestrator(options) about to run suite: runSuite before its loop
NewOrchestrator(suite, stopOnFailure) ==
  [ suite         |-> suite,
    stopOnFailure |-> stopOnFailure,
    results       |-> <<>>,
    visited       |-> 0,
    suiteResults  |-> [ results |-> <<>>,
                        summary |-> [ total |-> 0, passed |-> 0, failed |-> 0,
                                      warnings |-> 0, errors |-> 0,
                                      skipped |-> 0 ] ],
    state         |-> "RUNNING" ]

\* One iteration of the loop of runSuite
SuiteVisit ==
  /\ orch.state = "RUNNING"
  /\ orch.visited < Len(orch.suite)
  /\ LET i == orch.visited + 1
         r == runScenario(orch.results, i, orch.suite[i])
     IN IF r.threw
        THEN orch' = [orch EXCEPT !.visited = i, !.results = r.results,
                                  !.state = "REJECTED"]
        ELSE LET res == r.result[1]
                 key == summaryKey(res.status)
             IN orch' = [orch EXCEPT
                  !.visited = i,
                  !.results = r.results,
                  !.suiteResults.results = Append(@, res),
                  !.suiteResults.summary.total = @ + 1,
                  !.suiteResults.summary[key] = @ + 1,
                  !.state = IF orch.stopOnFailure /\ res.status = "FAILED"
                            THEN "RETURNED" ELSE "RUNNING"]
  /\ UNCHANGED <<engineVars, runA, runB, cards, probe>>

\* The loop of runSuite is over: runSuite returns suiteResults
SuiteComplete ==
  /\ orch.state = "RUNNING"
  /\ orch.visited = Len(orch.suite)
  /\ orch' = [orch EXCEPT !.state = "RETURNED"]
  /\ UNCHANGED <<engineVars, runA, runB, cards, probe>>

InitSuite ==
  /\ ctx = NewContext /\ ctxOff = NewContext /\ hist = NoHist
  /\ pc = "IDLE" /\ sent = <<>> /\ last = NoCall /\ pending = <<>>
  /\ genac = Null /\ result = Null /\ transactionHistory = <<>>
  /\ config = ModernTerminal /\ amount = 0
  /\ runA = Null /\ runB = Null /\ cards = Null /\ probe = Null
  /\ orch \in { NewOrchestrator(suite, stop) :
                  suite \in Suites, stop \in BOOLEAN }

NextSuite == SuiteVisit \/ SuiteComplete

SpecSuite == InitSuite /\ [][NextSuite]_vars

\* C12: every visit of a scenario adds exactly one result to the
\* orchestrator's results and to the suite's, for the scenario visited; the
\* result has status ERROR and the error's message exactly when creating the
\* emulators or the transaction threw; runSuite is never rejected, and it
\* returns after visiting every scenario, or right after a FAILED result when
\* stopOnFailure is set.
C12_Results ==
  /\ orch.state # "REJECTED"
  /\ Len(orch.results) = orch.visited
  /\ orch.suiteResults.results = orch.results
  /\ orch.suiteResults.summary.total = orch.visited
  /\ \A i \in 1..Len(orch.results) :
       LET r == orch.results[i]
       IN /\ r.scenarioId = i
          /\ r.status \in TestStatus \ { "SKIPPED" }
          /\ (r.status = "ERROR") = (orch.suite[i].run # "RETURNS")
          /\ r.status = "ERROR" =>
               r.error = Some([message |-> errorMessage(orch.suite[i])])
          /\ (i < Len(orch.results) /\ orch.stopOnFailure) => r.status # "FAILED"
  /\ orch.state = "RETURNED" =>
       \/ orch.visited = Len(orch.suite)
       \/ /\ orch.stopOnFailure
          /\ orch.results[orch.visited].status = "FAILED"

C12_RunScenarioAlwaysProducesAResult ==
  /\ []C12_Results
  /\ [][\/ orch'.results = orch.results
        \/ /\ orch'.visited = orch.visited + 1
           /\ Len(orch'.results) = Len(orch.results) + 1
           /\ SubSeq(orch'.results, 1, Len(orch.results)) = orch.results]_vars

\* a suite ran to its end past a scenario whose emulators could not be created
\* and one whose transaction threw
C12_Witness ==
  /\ orch.state = "RETURNED"
  /\ Len(orch.suite) = 2
  /\ orch.visited = 2
  /\ orch.suite[1].run = "CREATE_THROWS"
  /\ orch.suite[2].run = "TXN_THROWS"
  /\ orch.results[2].status = "ERROR"

\* ---------------------------------------------------------------------------
\* The card emulator (src/emulators/card/card-emulator.js)
\* ---------------------------------------------------------------------------

SW_INCORRECT_P1P2 == 27270
SW_INS_NOT_SUPPORTED == 27904

\* StandardAIDs
AID_MC_DEBIT == <<160, 0, 0, 0, 4, 32, 16>>
AID_VISA_CREDIT == <<160, 0, 0, 0, 3, 16, 16>>
AID_VISA_DEBIT == <<160, 0, 0, 0, 3, 32, 16>>

\* '1PAY.SYS.DDF01'
PSE_NAME == <<49, 80, 65, 89, 46, 83, 89, 83, 46, 68, 68, 70, 48, 49>>

\* CardProfile.initializeDefaultData: staticData, tag -> value, of a
\* contactless profile whose specification version supports PAR; the kernel
\* identifier (9F2A) is added by CardProfile
defaultData ==
     (80 :> <<67, 82, 69, 68, 73, 84>>)   \* 50
  @@ (90 :> <<84, 19, 51, 0, 0, 0, 0, 25>>)   \* 5A
  @@ (24356 :> <<39, 18, 49>>)   \* 5F24
  @@ (87 :> <<84, 19, 51, 0, 0, 0, 0, 25, 210, 113, 33, 1, 18, 52, 0, 0, 31>>)   \* 57
  @@ (24352 :> <<84, 69, 83, 84, 47, 67, 65, 82, 68>>)   \* 5F20
  @@ (24372 :> <<1>>)   \* 5F34
  @@ (40712 :> <<0, 2>>)   \* 9F08
  @@ (40711 :> <<255, 0>>)   \* 9F07
  @@ (40717 :> <<252, 80, 160, 0, 0>>)   \* 9F0D
  @@ (40718 :> <<0, 0, 0, 0, 0>>)   \* 9F0E
  @@ (40719 :> <<248, 80, 164, 152, 0>>)   \* 9F0F
  @@ (130 :> <<57, 0>>)   \* 82
  @@ (148 :> <<8, 1, 1, 0>>)   \* 94
  @@ (140 :> <<159, 2, 6, 159, 3, 6, 159, 26, 2, 149, 5, 95, 42, 2, 154, 3, 156, 1, 159, 55, 4>>)   \* 8C
  @@ (141 :> <<145, 10, 138, 2, 159, 55, 4>>)   \* 8D
  @@ (142 :> <<0, 0, 16, 0, 0, 0, 80, 0, 31, 0, 2, 1, 68, 3>>)   \* 8E
  @@ (40814 :> <<32, 112, 0, 0>>)   \* 9F6E
  @@ (40812 :> <<62, 0>>)   \* 9F6C
  @@ (14647553 :> <<53, 48, 48, 48, 48, 48, 48, 48, 48, 48, 48, 48, 48, 48, 48, 48, 48, 48, 48, 48, 48, 48, 48, 48, 48, 48, 48, 48, 48, 48>>)   \* DF8101
  @@ (40760 :> <<159, 102, 4, 159, 2, 6, 159, 3, 6, 159, 26, 2, 149, 5, 95, 42, 2, 154, 3, 156, 1, 159, 55, 4>>)   \* 9F38
  @@ (40720 :> <<15, 165, 1, 160, 48, 248, 0, 0, 0, 0, 0, 0, 0, 0, 0, 0, 15>>)   \* 9F10

\* new CardProfile(options) followed by the setData calls of a factory or of
\* the orchestrator's dataOverrides; name16 is name.substring(0, 16)
CardProfile(name16, supportedAIDs, kernelId, overrides) ==
  [ name          |-> name16,
    supportedAIDs |-> supportedAIDs,
    kernelId      |-> kernelId,
    staticData    |-> overrides @@ (TAG_KERNEL_ID :> <<kernelId>>) @@ defaultData ]

\* new CardEmulator(profile)
CardEmulator(profile) ==
  [ profile        |-> profile,
    selectedAID    |-> Null,
    currentState   |-> "IDLE",
    atc            |-> 1,
    transactionLog |-> <<>> ]

\* CardFactory.createMastercardContactless()
createMastercardContactless ==
  CardEmulator(CardProfile(
    <<77, 97, 115, 116, 101, 114, 99, 97, 114, 100, 32, 67, 111, 110, 116, 97>>,
    <<AID_MC, AID_MC_DEBIT>>, KERNEL_C2, (40812 :> <<62, 0>>)))

\* CardFactory.createVisaContactless()
createVisaContactless ==
  CardEmulator(CardProfile(
    <<86, 105, 115, 97, 32, 67, 111, 110, 116, 97, 99, 116, 108, 101, 115, 115>>,
    <<AID_VISA_CREDIT, AID_VISA_DEBIT>>, 3, <<>>))

\* CardFactory.createC8Card()
createC8Card ==
  CardEmulator(CardProfile(
    <<67, 56, 32, 67, 111, 109, 109, 111, 110, 32, 75, 101, 114, 110, 101, 108>>,
    <<AID_MC>>, KERNEL_C8,
    (14647554 :> <<1, 0>>) @@ (14647556 :> <<1>>) @@ (40813 :> <<KERNEL_C8>>)))

\* the Mastercard card of a scenario whose cardConfig.dataOverrides sets the
\* AFL (tag 94) to SFI 1, records 1 to 2
createMastercardTwoRecords ==
  CardEmulator(CardProfile(
    <<77, 97, 115, 116, 101, 114, 99, 97, 114, 100, 32, 67, 111, 110, 116, 97>>,
    <<AID_MC, AID_MC_DEBIT>>, KERNEL_C2,
    (40812 :> <<62, 0>>) @@ (TAG_AFL :> AFL_SFI1)))

\* const v = profile.getData(tag); if (v) builder.addPrimitive(tag, v)
primitiveIfSet(profile, tag) ==
  IF tag \in DOMAIN profile.staticData /\ profile.staticData[tag] # <<>>
    THEN <<addPrimitive(tag, profile.staticData[tag])>>
    ELSE <<>>

\* CardEmulator.buildPPSEResponse: one directory entry per supported AID
RECURSIVE ppseEntries(_, _)
ppseEntries(profile, aids) ==
  IF aids = <<>> THEN <<>>
  ELSE <<addConstructed(TAG_DIR_ENTRY, <<
           addPrimitive(TAG_ADF_NAME, Head(aids)),
           addPrimitive(80, profile.name),
           addPrimitive(TAG_PRIORITY, <<1>>),
           addPrimitive(TAG_KERNEL_ID, <<profile.kernelId>>)>>)>>
       \o ppseEntries(profile, Tail(aids))

buildPPSEResponse(card) ==
  success(build(<<addConstructed(TAG_FCI, <<
    addPrimitive(TAG_DF_NAME, PPSE_NAME),
    addConstructed(TAG_FCI_PROP, <<
      addConstructed(TAG_FCI_IDD,
        ppseEntries(card.profile, card.profile.supportedAIDs))>>)>>)>>))

\* CardEmulator.buildPSEResponse
buildPSEResponse ==
  success(build(<<addConstructed(TAG_FCI, <<
    addPrimitive(TAG_DF_NAME, PSE_NAME),
    addConstructed(TAG_FCI_PROP, <<addPrimitive(136, <<1>>)>>)>>)>>))

\* CardEmulator.buildFCIResponse
buildFCIResponse(card) ==
  success(build(<<addConstructed(TAG_FCI, <<
    addPrimitive(TAG_DF_NAME, card.selectedAID[1]),
    addConstructed(TAG_FCI_PROP,
      primitiveIfSet(card.profile, 80)
      \o primitiveIfSet(card.profile, TAG_PDOL)
      \o <<addPrimitive(24365, <<101, 110>>)>>
      \o <<addConstructed(TAG_FCI_IDD,
             primitiveIfSet(card.profile, 40712)
             \o <<addPrimitive(TAG_KERNEL_ID, <<card.profile.kernelId>>)>>)>>)
  >>)>>))

\* supportedAIDs.find(aid => requestedAID.startsWith(aid) ||
\*                           aid.startsWith(requestedAID))
RECURSIVE findSupportedAID(_, _)
findSupportedAID(aids, requestedAID) ==
  IF aids = <<>> THEN Null
  ELSE IF startsWith(requestedAID, Head(aids)) \/ startsWith(Head(aids), requestedAID)
    THEN Some(Head(aids))
  ELSE findSupportedAID(Tail(aids), requestedAID)

\* what a command processor leaves: the card and its response
Answer(card, response) == [card |-> card, response |-> response]

\* CardEmulator.processSelect
processSelect(card, cmd) ==
  IF cmd.p1 # 4 THEN Answer(card, error(SW_INCORRECT_P1P2))
  ELSE IF cmd.data = PPSE_NAME THEN Answer(card, buildPPSEResponse(card))
  ELSE IF cmd.data = PSE_NAME THEN Answer(card, buildPSEResponse)
  ELSE IF IsNull(findSupportedAID(card.profile.supportedAIDs, cmd.data))
    THEN Answer(card, error(SW_FILE_NOT_FOUND))
  ELSE Answer(
         [card EXCEPT
            !.selectedAID = findSupportedAID(card.profile.supportedAIDs, cmd.data),
            !.currentState = "SELECTED"],
         buildFCIResponse(
           [card EXCEPT !.selectedAID =
              findSupportedAID(card.profile.supportedAIDs, cmd.data)]))

\* a processGPO that answers in every state
processGPO_ungated(card, cmd) ==
  Answer(
    [card EXCEPT !.currentState = "GPO_COMPLETE"],
    success(build(<<addConstructed(TAG_FORMAT2,
      <<addPrimitive(TAG_AIP, card.profile.staticData[TAG_AIP]),
        addPrimitive(TAG_AFL, card.profile.staticData[TAG_AFL])>>)>>)))

\* CardEmulator.processGPO: Format 2 with AIP, AFL and the contactless tags
processGPO(card, cmd) ==
  IF card.currentState # "SELECTED"
    THEN Answer(card, error(SW_CONDITIONS_NOT_SATISFIED))
  ELSE Answer(
         [card EXCEPT !.currentState = "GPO_COMPLETE"],
         success(build(<<addConstructed(TAG_FORMAT2,
           <<addPrimitive(TAG_AIP, card.profile.staticData[TAG_AIP]),
             addPrimitive(TAG_AFL, card.profile.staticData[TAG_AFL])>>
           \o primitiveIfSet(card.profile, 87)
           \o primitiveIfSet(card.profile, TAG_PAN)
           \o primitiveIfSet(card.profile, TAG_FFI)
           \o primitiveIfSet(card.profile, 40812))>>)))

\* the children of template 70 for a record; for a record the card does not
\* have, the callback returns early and the template stays empty
recordChildren(profile, sfi, recordNumber) ==
  IF sfi = 1 /\ recordNumber = 1
    THEN primitiveIfSet(profile, TAG_PAN)
         \o primitiveIfSet(profile, 24356)
         \o primitiveIfSet(profile, 24352)
         \o primitiveIfSet(profile, 87)
         \o <<addPrimitive(24368, <<2, 1>>)>>
         \o primitiveIfSet(profile, 24372)
  ELSE IF sfi = 1 /\ recordNumber = 2
    THEN primitiveIfSet(profile, TAG_CDOL1)
         \o primitiveIfSet(profile, TAG_CDOL2)
         \o primitiveIfSet(profile, 142)
         \o <<addPrimitive(40717, profile.staticData[40717]),
              addPrimitive(40718, profile.staticData[40718]),
              addPrimitive(40719, profile.staticData[40719])>>
  ELSE IF sfi = 2 /\ recordNumber = 1
    THEN primitiveIfSet(profile, TAG_PAR)
  ELSE <<>>

\* CardEmulator.processReadRecord
processReadRecord(card, cmd) ==
  IF card.currentState # "GPO_COMPLETE" /\ card.currentState # "READING"
    THEN Answer(card, error(SW_CONDITIONS_NOT_SATISFIED))
  ELSE Answer(
         [card EXCEPT !.currentState = "READING"],
         success(build(<<addConstructed(TAG_RECORD,
           recordChildren(card.profile, BitAnd(cmd.p2, 248) \div 8, cmd.p1))>>)))

\* atc.toString(16).padStart(4, '0') as bytes
atcBytes(atc) == <<(atc \div 256) % 256, atc % 256>>

\* CardEmulator.processGenerateAC; ac is the value of crypto.randomBytes(8)
processGenerateAC(card, cmd, ac) ==
  IF card.currentState # "READING" /\ card.currentState # "GPO_COMPLETE"
    THEN Answer(card, error(SW_CONDITIONS_NOT_SATISFIED))
  ELSE Answer(
         [card EXCEPT !.currentState = "AC_GENERATED", !.atc = @ + 1],
         success(build(<<addConstructed(TAG_FORMAT2,
           <<addPrimitive(TAG_CID, <<BitAnd(cmd.p1, 192)>>),
             addPrimitive(TAG_ATC, atcBytes(card.atc + 1)),
             addPrimitive(TAG_AC, ac)>>
           \o primitiveIfSet(card.profile, 40720))>>)))

\* the switch of CardEmulator.processCommand over the instructions the
\* terminal sends
dispatch(card, cmd, ac) ==
  CASE cmd.ins = "SELECT"                 -> processSelect(card, cmd)
    [] cmd.ins = "GET_PROCESSING_OPTIONS" -> processGPO(card, cmd)
    [] cmd.ins = "READ_RECORD"            -> processReadRecord(card, cmd)
    [] cmd.ins = "GENERATE_AC"            -> processGenerateAC(card, cmd, ac)
    [] OTHER -> Answer(card, error(SW_INS_NOT_SUPPORTED))

\* CardEmulator.processCommand: the command and the response are logged
processCommand(card, cmd, ac) ==
  LET a == dispatch(card, cmd, ac)
  IN Answer([a.card EXCEPT !.transactionLog =
               @ \o <<[type |-> "COMMAND", apdu |-> cmd],
                      [type |-> "RESPONSE", apdu |-> a.response]>>],
            a.response)

\* ---------------------------------------------------------------------------
\* Transactions between terminal emulators and card emulators
\* (TerminalEmulator.executeContactlessTransaction run as an async function:
\* it runs from one await to the next without interruption)
\* ---------------------------------------------------------------------------

\* TerminalEmulator.sendCommand: processCommand of the card emulator that
\* cardRef refers to, run when the command is sent; the card emulators live
\* in heap
sendCommand_sharedCard(heap, cardRef, cmd, ac) ==
  LET a == processCommand(heap["cardA"], cmd, ac)
  IN [ heap |-> [heap EXCEPT !["cardA"] = a.card], response |-> a.response ]

sendCommand(heap, cardRef, cmd, ac) ==
  LET a == processCommand(heap[cardRef], cmd, ac)
  IN [ heap |-> [heap EXCEPT ![cardRef] = a.card], response |-> a.response ]

\* a call of terminal.executeContactlessTransaction(card, { amount }) that has
\* not started; terminal is a new TerminalEmulator(cfg)
NewRun(cardRef, cfg, amt) ==
  [ card               |-> cardRef,
    config             |-> cfg,
    amount             |-> amt,
    ctx                |-> NewContext,
    pc                 |-> "start",
    response           |-> Null,
    reading            |-> Null,
    pending            |-> <<>>,
    request            |-> Undef,
    result             |-> Null,
    transactionHistory |-> <<>> ]

\* the run and the card emulators after a part of the transaction
Progress(run, heap) == [run |-> run, heap |-> heap]

\* await this.sendCommand(card, cmd): the card answers, the run waits at at
awaitCommand(run, heap, c, cmd, at, ac) ==
  LET s == sendCommand(heap, run.card, cmd, ac)
  IN Progress([run EXCEPT !.ctx = c, !.pc = at, !.response = Some(s.response)],
              s.heap)

\* return this.buildErrorResult(ctx, errorCode, response)
returnError(run, heap, c, errorCode, response) ==
  LET failed == buildErrorResult(c, errorCode, response)
  IN Progress([run EXCEPT !.ctx = failed,
                          !.result = Some(getTransactionResult(failed)),
                          !.pc = "done"],
              heap)

\* the catch block: the error is recorded and the result returned
catchError(run, heap, c) ==
  Progress([run EXCEPT
              !.ctx = [c EXCEPT !.errors =
                         Append(@, ErrorEntry("EXECUTION", "undefined", Undef,
                                              "TypeError"))],
              !.result = Some(getTransactionResult(
                           [c EXCEPT !.errors =
                              Append(@, ErrorEntry("EXECUTION", "undefined", Undef,
                                                   "TypeError"))])),
              !.pc = "done"],
           heap)

\* steps 8 and 9 up to the await of GENERATE AC, on the context c that risk
\* management left
requestCryptogram(run, heap, c, ac) ==
  LET genACData == buildGenACData(c, buildTerminalData(run.amount))
  IN IF ~genACData.ok
       THEN returnError(run, heap, genACData.ctx, "GENERATE_AC_BUILD_FAILED", Null)
       ELSE awaitCommand([run EXCEPT !.request = determineTerminalAction(c)], heap, c,
                         generateAC(determineTerminalAction(c), genACData.data),
                         "awaitGenAC", ac)

\* steps 5 to 7 on the context c that the reads left: field validation, CVM,
\* risk management (rnd is the outcome of Math.random() < 0.1)
cvmStep(run, c) ==
  [c EXCEPT !.cvmResult = Some(performCVM(c, run.amount))]

afterReads(run, heap, c, rnd, ac) ==
  requestCryptogram(run, heap,
    performTerminalRiskManagement(cvmStep(run, validateFields(run.config, c)),
                                  run.amount, rnd),
    ac)

\* step 4: the next READ RECORD of commands, or the steps after the loop
readNext(run, heap, c, commands, rnd, ac) ==
  IF commands = <<>> THEN afterReads([run EXCEPT !.pending = <<>>], heap, c, rnd, ac)
  ELSE awaitCommand([run EXCEPT !.reading = Some(Head(commands)),
                                !.pending = Tail(commands)],
                    heap, c, Head(commands).command, "awaitRead", ac)

\* the call up to its first await: createTransaction, SELECT PPSE
startRun(run, heap, ac) ==
  awaitCommand(run, heap, NewContext, selectPPSE, "awaitPPSE", ac)

\* after the PPSE response: application selection, SELECT
afterPPSE(run, heap, r, s, ac) ==
  IF ~isSuccess(r.sw)
    THEN returnError(run, heap, run.ctx, "PPSE_SELECT_FAILED", Some(r))
  ELSE IF IsNull(s.app)
    THEN returnError(run, heap, s.ctx, "NO_SUPPORTED_APPLICATION", Null)
  ELSE awaitCommand(run, heap, checkKernelFallback(run.config, s.ctx, s.app[1]),
                    selectCommand(s.app[1].aid), "awaitSelect", ac)

\* after the SELECT response: processSelectResponse, GET PROCESSING OPTIONS
afterSelect(run, heap, r, o, ac) ==
  IF ~isSuccess(r.sw)
    THEN returnError(run, heap, run.ctx, "APPLICATION_SELECT_FAILED", Some(r))
  ELSE IF o.threw THEN catchError(run, heap, o.ctx)
  ELSE awaitCommand(run, heap, o.ctx,
                    getProcessingOptions(
                      buildGPOData(o.ctx, buildTerminalData(run.amount)).data),
                    "awaitGPO", ac)

\* a driver that reads the records of the AFL last entry first
afterGPO_lastFirst(run, heap, r, o, rnd, ac) ==
  IF ~isSuccess(r.sw)
    THEN returnError(run, heap, run.ctx, "GPO_FAILED", Some(r))
  ELSE IF o.threw THEN catchError(run, heap, run.ctx)
  ELSE readNext(run, heap, o.ctx,
                [i \in 1..Len(generateReadCommands(o.ctx)) |->
                   generateReadCommands(o.ctx)[Len(generateReadCommands(o.ctx)) + 1 - i]],
                rnd, ac)

\* after the GPO response: processGPOResponse, the first READ RECORD
afterGPO(run, heap, r, o, rnd, ac) ==
  IF ~isSuccess(r.sw)
    THEN returnError(run, heap, run.ctx, "GPO_FAILED", Some(r))
  ELSE IF o.threw THEN catchError(run, heap, run.ctx)
  ELSE readNext(run, heap, o.ctx, generateReadCommands(o.ctx), rnd, ac)

\* after a READ RECORD response
afterRead(run, heap, o, rnd, ac) ==
  IF o.threw THEN catchError(run, heap, o.ctx)
  ELSE readNext(run, heap, o.ctx, run.pending, rnd, ac)

\* after the GENERATE AC response: the result is built and returned
afterGenAC(run, heap, r, o) ==
  IF ~isSuccess(r.sw)
    THEN returnError(run, heap, run.ctx, "GENERATE_AC_FAILED", Some(r))
  ELSE IF o.threw THEN catchError(run, heap, o.ctx)
  ELSE Progress([run EXCEPT
                   !.ctx = o.ctx,
                   !.result = Some(getTransactionResult(o.ctx)),
                   !.transactionHistory = Append(@, getTransactionResult(o.ctx)),
                   !.pc = "done"],
                heap)

\* executeContactlessTransaction from where run waits to its next await or
\* its return
resume(run, heap, rnd, ac) ==
  CASE run.pc = "start" -> startRun(run, heap, ac)
    [] run.pc = "awaitPPSE" ->
         afterPPSE(run, heap, run.response[1],
                   selectApplicationFromPPSE(run.config, run.response[1], run.ctx), ac)
    [] run.pc = "awaitSelect" ->
         afterSelect(run, heap, run.response[1],
                     processSelectResponse(run.ctx, run.response[1], TRUE), ac)
    [] run.pc = "awaitGPO" ->
         afterGPO(run, heap, run.response[1],
                  processGPOResponse(run.ctx, run.response[1]), rnd, ac)
    [] run.pc = "awaitRead" ->
         afterRead(run, heap,
                   processReadRecordResponse(run.ctx, run.response[1],
                                             run.reading[1].sfi,
                                             run.reading[1].record, TRUE),
                   rnd, ac)
    [] run.pc = "awaitGenAC" ->
         afterGenAC(run, heap, run.response[1],
                    processGenACResponse(run.ctx, run.response[1]))

\* the cards a factory or a scenario's cardConfig creates
FactoryCards ==
  { createMastercardContactless, createVisaContactless, createC8Card,
    createMastercardTwoRecords }

\* the values crypto.randomBytes(8) returns, two of them
Cryptograms == { AC_BYTES, <<1, 2, 3, 4, 5, 6, 7, 8>> }

\* Two transactions, each between its own terminal and its own card
InitRuns ==
  /\ ctx = NewContext /\ ctxOff = NewContext /\ hist = NoHist
  /\ pc = "IDLE" /\ sent = <<>> /\ last = NoCall /\ pending = <<>>
  /\ genac = Null /\ result = Null /\ transactionHistory = <<>>
  /\ config = ModernTerminal /\ amount = 0
  /\ orch = Null /\ probe = Null
  /\ cards \in { [ cardA |-> a, cardB |-> b ] :
                   a \in FactoryCards,
                   b \in { createMastercardContactless, createMastercardTwoRecords } }
  /\ runA \in { NewRun("cardA", cfg, amt) : cfg \in Configs, amt \in Amounts }
  /\ runB \in { NewRun("cardB", ModernTerminal, amt) : amt \in Amounts }

\* the event loop resumes the first transaction
ResumeA ==
  /\ runA.pc # "done"
  /\ \E rnd \in BOOLEAN, ac \in Cryptograms :
       \E p \in { resume(runA, cards, rnd, ac) } :
         runA' = p.run /\ cards' = p.heap
  /\ UNCHANGED <<engineVars, orch, runB, probe>>

\* the event loop resumes the second transaction
ResumeB ==
  /\ runB.pc # "done"
  /\ \E rnd \in BOOLEAN, ac \in Cryptograms :
       \E p \in { resume(runB, cards, rnd, ac) } :
         runB' = p.run /\ cards' = p.heap
  /\ UNCHANGED <<engineVars, orch, runA, probe>>

NextRuns == ResumeA \/ ResumeB

SpecRuns == InitRuns /\ [][NextRuns]_vars

\* the call of a run as it was made, and the card emulators as created
Called(run) == NewRun(run.card, run.config, run.amount)

Created(heap) == [ r \in DOMAIN heap |-> CardEmulator(heap[r].profile) ]

\* every way a transaction that runs alone from p can end
RECURSIVE Finals(_)
Finals(p) ==
  IF p.run.pc = "done" THEN { p }
  ELSE UNION { Finals(q) :
                 q \in { resume(p.run, p.heap, rnd, ac) :
                           rnd \in BOOLEAN, ac \in Cryptograms } }

\* every way call a followed, after its return, by call b can end
Sequential(a, b, heap) ==
  UNION { { [ runA |-> fa.run, runB |-> fb.run, cards |-> fb.heap ] :
              fb \in Finals(Progress(b, fa.heap)) } :
          fa \in Finals(Progress(a, heap)) }

\* C13: two interleaved transactions, each with its own terminal and card,
\* end as they can end when run one after the other (their contexts, results
\* and card emulators are the same); a step of one run leaves the other run
\* and its card as they were, and does not depend on the state of the other
\* run's card.
C13_EndsAsSequential ==
  (runA.pc = "done" /\ runB.pc = "done") =>
    [ runA |-> runA, runB |-> runB, cards |-> cards ]
      \in Sequential(Called(runA), Called(runB), Created(cards))

C13_ReadsOwnCard ==
  /\ runA.pc # "done" =>
       resume(runA, cards, TRUE, AC_BYTES).run
         = resume(runA, [cards EXCEPT ![runB.card] = CardEmulator(@.profile)],
                  TRUE, AC_BYTES).run
  /\ runB.pc # "done" =>
       resume(runB, cards, TRUE, AC_BYTES).run
         = resume(runB, [cards EXCEPT ![runA.card] = CardEmulator(@.profile)],
                  TRUE, AC_BYTES).run

C13_ConcurrentTransactionsIndependent ==
  /\ [](C13_EndsAsSequential /\ C13_ReadsOwnCard)
  /\ [][/\ runA' # runA => (runB' = runB /\ cards'[runB.card] = cards[runB.card])
        /\ runB' # runB => (runA' = runA /\ cards'[runA.card] = cards[runA.card])]_vars

\* both transactions are under way, each waiting at an await after several
\* exchanges with its card
C13_Witness ==
  /\ runA.pc = "awaitGenAC"
  /\ runB.pc = "awaitRead"
  /\ cards[runA.card].currentState = "AC_GENERATED"
  /\ cards[runB.card].currentState = "READING"

\* C14: the transaction between the card of
\* CardFactory.createMastercardContactless and a modern terminal ends with
\* success = true, state COMPLETION and a cryptogram in the result.
C14_DefaultTransactionSucceeds ==
  ( /\ runA.pc = "done"
    /\ cards[runA.card].profile = createMastercardContactless.profile
    /\ runA.config = ModernTerminal ) =>
      /\ runA.result[1].success
      /\ runA.result[1].state = "COMPLETION"
      /\ ~IsNull(runA.result[1].cryptogram)

\* C15: the GET PROCESSING OPTIONS command that
\* executeContactlessTransaction sent carries as its data field exactly the
\* bytes buildGPOData returns for the context (whose PDOL no later step
\* changes): one template 83 around the PDOL data, or 83 00 without a PDOL.
C15_GpoCommandCarriesGpoData ==
  \A i \in 1..Len(sent) :
    sent[i].ins = "GET_PROCESSING_OPTIONS" =>
      sent[i].data = buildGPOData(ctx, buildTerminalData(amount)).data

\* ===========================================================================
\* The APDU model at the level of bytes (src/core/apdu/apdu-handler.js)
\* ===========================================================================
CLA_ISO == 0
CLA_PROPRIETARY == 128
INS_SELECT == 164
INS_READ_RECORD == 178
INS_GET_PROCESSING_OPTIONS == 168
INS_GENERATE_AC == 174

\* Buffer.from([x]): the byte an array element is stored as
Byte(x) == x % 256

\* new CommandAPDU(cla, ins, p1, p2, data, le); data and le are null when
\* they are left out
CommandAPDU(cla, ins, p1, p2, data, le) ==
  [cla |-> cla, ins |-> ins, p1 |-> p1, p2 |-> p2, data |-> data, le |-> le]

\* get case(): a Buffer is truthy whatever its length, only null is not
case(apdu) ==
  IF IsNull(apdu.data) /\ IsNull(apdu.le) THEN 1
  ELSE IF IsNull(apdu.data) /\ ~IsNull(apdu.le) THEN 2
  ELSE IF ~IsNull(apdu.data) /\ IsNull(apdu.le) THEN 3
  ELSE 4

\* the byte toBuffer writes for Le
leByte(le) == IF le = 256 THEN 0 ELSE Byte(le)

\* CommandAPDU.toBuffer
CommandAPDU_toBuffer(apdu) ==
  LET header == <<Byte(apdu.cla), Byte(apdu.ins), Byte(apdu.p1), Byte(apdu.p2)>>
      c == case(apdu)
  IN CASE c = 1 -> header
       [] c = 2 -> header \o <<leByte(apdu.le[1])>>
       [] c = 3 -> header \o <<Byte(Len(apdu.data[1]))>> \o apdu.data[1]
       [] c = 4 -> header \o <<Byte(Len(apdu.data[1]))>> \o apdu.data[1]
                     \o <<leByte(apdu.le[1])>>

\* what a call of a parser ends in: the value returned, or the message of
\* the Error thrown
Returned(value) == [threw |-> FALSE, message |-> "", value |-> value]
Thrown(message) == [threw |-> TRUE, message |-> message, value |-> Null]

\* CommandAPDU.fromBuffer
CommandAPDU_fromBuffer(buffer) ==
  IF Len(buffer) < 4 THEN Thrown("Invalid APDU: too short")
  ELSE
    LET cla == At(buffer, 0)
        ins == At(buffer, 1)
        p1 == At(buffer, 2)
        p2 == At(buffer, 3)
        lc == At(buffer, 4)
    IN IF Len(buffer) = 4
         THEN Returned(CommandAPDU(cla, ins, p1, p2, Null, Null))
       ELSE IF Len(buffer) = 5
         THEN Returned(CommandAPDU(cla, ins, p1, p2, Null,
                         Some(IF At(buffer, 4) = 0 THEN 256 ELSE At(buffer, 4))))
       ELSE IF Len(buffer) = 5 + lc
         THEN Returned(CommandAPDU(cla, ins, p1, p2,
                         Some(Slice(buffer, 5, 5 + lc)), Null))
       ELSE IF Len(buffer) = 6 + lc
         THEN Returned(CommandAPDU(cla, ins, p1, p2,
                         Some(Slice(buffer, 5, 5 + lc)),
                         Some(IF At(buffer, 5 + lc) = 0 THEN 256
                              ELSE At(buffer, 5 + lc))))
       ELSE Thrown("Invalid APDU: incorrect length")

\* The CommandAPDU the EMVCommands factory constructs for a command of the
\* terminal: class and instruction bytes, the data Buffer (null for READ
\* RECORD), and Le = 0x00 in every one of them
commandAPDU(cmd) ==
  CASE cmd.ins = "SELECT" ->
         CommandAPDU(CLA_ISO, INS_SELECT, cmd.p1, cmd.p2, Some(cmd.data), Some(0))
    [] cmd.ins = "GET_PROCESSING_OPTIONS" ->
         CommandAPDU(CLA_PROPRIETARY, INS_GET_PROCESSING_OPTIONS, cmd.p1, cmd.p2,
                     Some(cmd.data), Some(0))
    [] cmd.ins = "READ_RECORD" ->
         CommandAPDU(CLA_ISO, INS_READ_RECORD, cmd.p1, cmd.p2, Null, Some(0))
    [] cmd.ins = "GENERATE_AC" ->
         CommandAPDU(CLA_PROPRIETARY, INS_GENERATE_AC, cmd.p1, cmd.p2,
                     Some(cmd.data), Some(0))

\* ---------------------------------------------------------------------------
\* Codec calls.  probe is one value on its way through a codec: arg is what
\* the caller starts from, derived what the encoder reads off it, buffer the
\* bytes between encoder and decoder, out what the decoder ends in.
NewProbe(op, arg) ==
  [op |-> op, stage |-> "new", arg |-> arg, derived |-> Null,
   buffer |-> Null, out |-> Null]

\* bytes received rather than built: they go straight to the decoder
Received(op, bytes) ==
  [op |-> op, stage |-> "encoded", arg |-> bytes, derived |-> Null,
   buffer |-> Some(bytes), out |-> Null]

\* the commands encoded: the factory's, and every combination of data and Le
FactoryCommands ==
  { commandAPDU(selectPPSE), commandAPDU(selectCommand(AID_MC)),
    commandAPDU(getProcessingOptions(<<>>)),
    commandAPDU(getProcessingOptions(<<0, 0, 0, 0, 16, 0>>)),
    commandAPDU(readRecord(1, 1)), commandAPDU(readRecord(2, 1)),
    commandAPDU(generateAC(ARQC, <<0, 0, 0, 0, 16, 0>>)),
    commandAPDU(generateAC(TC, <<>>)) }

CommandData == { Null, Some(<<>>), Some(<<1>>), Some(<<1, 2>>), Some(<<0, 0, 7>>) }
CommandLe == { Null, Some(0), Some(1), Some(255), Some(256) }

Commands ==
  FactoryCommands \cup
  { CommandAPDU(h[1], h[2], h[3], h[4], d, l) :
      h \in { <<CLA_ISO, INS_SELECT, 4, 0>>, <<CLA_PROPRIETARY, INS_GENERATE_AC, 128, 0>> },
      d \in CommandData, l \in CommandLe }

\* command bytes received from outside: too short, well formed, wrong length
CommandBuffers ==
  { <<>>, <<0, 164, 4>>, <<0, 164, 4, 0>>, <<0, 178, 1, 12, 0>>,
    <<0, 178, 1, 12, 5>>, <<0, 164, 4, 0, 2, 1, 2>>, <<0, 164, 4, 0, 2, 1, 2, 0>>,
    <<0, 164, 4, 0, 1, 1, 2, 3>>, <<0, 164, 4, 0, 3, 1>> }

\* apdu.toBuffer()
CommandToBuffer ==
  /\ probe.op = "command" /\ probe.stage = "new"
  /\ probe' = [probe EXCEPT !.stage = "encoded",
                            !.derived = Some(case(probe.arg)),
                            !.buffer = Some(CommandAPDU_toBuffer(probe.arg))]
  /\ UNCHANGED <<engineVars, orch, runA, runB, cards>>

\* CommandAPDU.fromBuffer(buffer)
CommandFromBuffer ==
  /\ probe.op \in {"command", "commandBytes"} /\ probe.stage = "encoded"
  /\ probe' = [probe EXCEPT !.stage = "decoded",
                            !.out = CommandAPDU_fromBuffer(probe.buffer[1])]
  /\ UNCHANGED <<engineVars, orch, runA, runB, cards>>

\* C16: a CommandAPDU's case is the one its data and Le fix (1: neither,
\* 2: Le only, 3: data only, 4: both), and parsing the bytes toBuffer wrote
\* returns a command with the same cla, ins, p1, p2, data and le; this for
\* every combination of data and Le and for the EMVCommands factory's
\* commands.
C16_CaseAndRoundTrip ==
  (probe.op = "command" /\ probe.stage = "decoded") =>
    /\ probe.derived[1] = ( IF IsNull(probe.arg.data)
                              THEN (IF IsNull(probe.arg.le) THEN 1 ELSE 2)
                              ELSE (IF IsNull(probe.arg.le) THEN 3 ELSE 4) )
    /\ ~probe.out.threw
    /\ probe.out.value = probe.arg

\* ---------------------------------------------------------------------------
\* ResponseAPDU at the level of bytes
\* new ResponseAPDU(data, sw1, sw2)
ResponseAPDU(data, sw1, sw2) == [data |-> data, sw1 |-> sw1, sw2 |-> sw2]

\* get sw(): (sw1 << 8) | sw2
ResponseAPDU_sw(r) == Shl8Or(r.sw1, r.sw2)

\* ResponseAPDU.toBuffer
ResponseAPDU_toBuffer(r) == r.data \o <<Byte(r.sw1), Byte(r.sw2)>>

\* a parser that reads the status word off the front of the buffer
ResponseAPDU_fromBuffer_leading(buffer) ==
  IF Len(buffer) < 2 THEN Thrown("Invalid response: too short")
  ELSE Returned(ResponseAPDU(Slice(buffer, 2, Len(buffer)),
                             At(buffer, 0), At(buffer, 1)))

\* ResponseAPDU.fromBuffer
ResponseAPDU_fromBuffer(buffer) ==
  IF Len(buffer) < 2 THEN Thrown("Invalid response: too short")
  ELSE LET sw2 == At(buffer, Len(buffer) - 1)
           sw1 == At(buffer, Len(buffer) - 2)
           data == Slice(buffer, 0, Len(buffer) - 2)
       IN Returned(ResponseAPDU(data, sw1, sw2))

\* ResponseAPDU.success and ResponseAPDU.error
ResponseAPDU_success(data) == ResponseAPDU(data, 144, 0)
ResponseAPDU_error(word) == ResponseAPDU(<<>>, (word \div 256) % 256, word % 256)

\* SW.hasMoreData
hasMoreData(word) == BitAnd(word, 65280) = 24832

\* a count that is the low byte of any status word
getBytesAvailable_lowByte(word) == BitAnd(word, 255)

\* SW.getBytesAvailable
getBytesAvailable(word) ==
  IF BitAnd(word, 65280) = 24832 THEN BitAnd(word, 255) ELSE 0

\* the getters of a response: sw, isSuccess, hasMoreData, bytesAvailable
Classification(word) ==
  [sw |-> word, isSuccess |-> isSuccess(word), hasMoreData |-> hasMoreData(word),
   bytesAvailable |-> getBytesAvailable(word)]

\* bytes that status words and data are made of in the calls below
SampleBytes == {0, 5, 97, 144, 145}

\* the responses encoded: the factories', and constructed ones
Responses ==
  { ResponseAPDU_success(d) : d \in { <<>>, <<111, 0>>, AC_BYTES } }
  \cup { ResponseAPDU_error(w) : w \in { SW_FILE_NOT_FOUND, SW_RECORD_NOT_FOUND,
                                         SW_CONDITIONS_NOT_SATISFIED, SW_INS_NOT_SUPPORTED } }
  \cup { ResponseAPDU(d, s1, s2) :
           d \in { <<>>, <<144, 0>>, <<97, 5, 0>> }, s1 \in SampleBytes, s2 \in SampleBytes }

\* response bytes received from a card: every buffer of up to three bytes
ResponseBuffers == UNION { [1..n -> SampleBytes] : n \in 0..3 }

\* the status words classified: every low byte under the high bytes at and
\* around 0x61, 0x90 and 0x91
StatusWords ==
  { h * 256 + l : h \in {0, 96, 97, 98, 106, 143, 144, 145, 146, 255}, l \in 0..255 }

\* r.toBuffer()
ResponseToBuffer ==
  /\ probe.op = "response" /\ probe.stage = "new"
  /\ probe' = [probe EXCEPT !.stage = "encoded",
                            !.buffer = Some(ResponseAPDU_toBuffer(probe.arg))]
  /\ UNCHANGED <<engineVars, orch, runA, runB, cards>>

\* ResponseAPDU.fromBuffer(buffer)
ResponseFromBuffer ==
  /\ probe.op \in {"response", "responseBytes"} /\ probe.stage = "encoded"
  /\ probe' = [probe EXCEPT !.stage = "decoded",
                            !.out = ResponseAPDU_fromBuffer(probe.buffer[1])]
  /\ UNCHANGED <<engineVars, orch, runA, runB, cards>>

\* reading sw, isSuccess, hasMoreData and bytesAvailable of a parsed response
ResponseStatus ==
  /\ probe.op \in {"response", "responseBytes"} /\ probe.stage = "decoded"
  /\ ~probe.out.threw
  /\ probe' = [probe EXCEPT
                 !.stage = "read",
                 !.derived = Some(Classification(ResponseAPDU_sw(probe.out.value)))]
  /\ UNCHANGED <<engineVars, orch, runA, runB, cards>>

\* SW.isSuccess(sw), SW.hasMoreData(sw), SW.getBytesAvailable(sw)
ClassifySW ==
  /\ probe.op = "sw" /\ probe.stage = "new"
  /\ probe' = [probe EXCEPT !.stage = "decoded",
                            !.out = Returned(Classification(probe.arg))]
  /\ UNCHANGED <<engineVars, orch, runA, runB, cards>>

\* C17: ResponseAPDU.fromBuffer throws for a buffer of fewer than two bytes;
\* otherwise it returns the last two bytes as sw1 and sw2 and all the bytes
\* before them, possibly none, as data.  Parsing the bytes r.toBuffer() wrote
\* gives back r's data, sw1 and sw2, and sw is sw1 * 256 + sw2.
C17_ResponseParsing ==
  (probe.op \in {"response", "responseBytes"} /\ probe.stage \in {"decoded", "read"}) =>
    LET bytes == probe.buffer[1]
        n == Len(bytes)
    IN /\ probe.out.threw <=> n < 2
       /\ ~probe.out.threw =>
            /\ probe.out.value.sw1 = bytes[n - 1]
            /\ probe.out.value.sw2 = bytes[n]
            /\ probe.out.value.data = SubSeq(bytes, 1, n - 2)
       /\ probe.op = "response" =>
            /\ ~probe.out.threw
            /\ probe.out.value = probe.arg
       /\ probe.stage = "read" =>
            probe.derived[1].sw = probe.out.value.sw1 * 256 + probe.out.value.sw2

\* a response that carries data has gone through toBuffer and fromBuffer and
\* its status word has been read
C17_Witness ==
  /\ probe.op = "response" /\ probe.stage = "read"
  /\ probe.arg.data = <<97, 5, 0>> /\ probe.arg.sw1 = 145
  /\ probe.out.value.data = <<97, 5, 0>>
  /\ probe.derived[1].sw = 37120 + probe.arg.sw2

\* C18: whether a status word is a success, announces more data, and how
\* many bytes it announces depend on the word alone: success exactly for
\* 0x9000 and for high byte 0x91, more data exactly for high byte 0x61, and
\* the bytes available are the low byte then and 0 otherwise.  The getters of
\* a ResponseAPDU give the same for its sw.
C18_StatusWordClassification ==
  LET Right(word, c) ==
        /\ c.isSuccess <=> ( (word \div 256 = 144 /\ word % 256 = 0)
                             \/ word \div 256 = 145 )
        /\ c.hasMoreData <=> (word \div 256 = 97)
        /\ c.bytesAvailable = (IF word \div 256 = 97 THEN word % 256 ELSE 0)
  IN /\ (probe.op = "sw" /\ probe.stage = "decoded") =>
          Right(probe.arg, probe.out.value)
     /\ (probe.op \in {"response", "responseBytes"} /\ probe.stage = "read") =>
          Right(probe.derived[1].sw, probe.derived[1])

\* 0x6105 has been classified: more data, five bytes of it
C18_Witness ==
  /\ probe.op = "sw" /\ probe.stage = "decoded"
  /\ probe.arg = 24837
  /\ probe.out.value.hasMoreData /\ probe.out.value.bytesAvailable = 5
  /\ ~probe.out.value.isSuccess

\* ---------------------------------------------------------------------------
\* TLV trees built with TLVBuilder and parsed with TLVParser
\* a tree as the calls that build it: addPrimitive(tag, value) for a leaf,
\* addConstructed(tag, b => ...) with the calls for the children
Leaf(tag, value) ==
  [tag |-> tag, constructed |-> FALSE, value |-> value, children |-> <<>>]
Template(tag, children) ==
  [tag |-> tag, constructed |-> TRUE, value |-> <<>>, children |-> children]

\* the builder's tlvData after the calls of a tree
RECURSIVE builderItems(_)
builderItems(nodes) ==
  [i \in 1..Len(nodes) |->
     IF nodes[i].constructed
       THEN addConstructed(nodes[i].tag, builderItems(nodes[i].children))
       ELSE addPrimitive(nodes[i].tag, nodes[i].value)]

\* one-, two- and three-byte tags; the first byte of a template's tag has
\* bit 0x20 set, that of a leaf's has not
TAG_TEMPLATE_3 == 12550401
TAG_LEAF_3 == 14655489

Leaves ==
  { Leaf(TAG_PAN, <<>>), Leaf(TAG_PAN, <<1, 2>>), Leaf(TAG_AMOUNT, <<1>>),
    Leaf(TAG_AMOUNT, Zeros(128)), Leaf(TAG_PAR, <<7>>) }

Leaves3 == { Leaf(TAG_LEAF_3, <<1, 2>>) }

Templates1 ==
  { Template(t, kids) :
      t \in {TAG_RECORD, TAG_FCI_IDD},
      kids \in UNION { [1..n -> Leaves] : n \in 0..2 } }

Templates3 == { Template(TAG_TEMPLATE_3, <<Leaf(TAG_PAN, <<1>>)>>) }

Templates2 ==
  { Template(TAG_FCI, kids) :
      kids \in UNION { [1..n ->
                          { Leaf(TAG_DF_NAME, <<160, 0>>),
                            Template(TAG_FCI_PROP, <<>>),
                            Template(TAG_FCI_PROP, <<Leaf(TAG_PDOL, <<159, 2, 6>>)>>),
                            Template(TAG_FCI_PROP,
                              <<Template(TAG_FCI_IDD, <<Leaf(TAG_AMOUNT, Zeros(128)),
                                                        Leaf(TAG_AMOUNT, Zeros(128))>>)>>) }]
                       : n \in 1..2 } }

Trees ==
  { <<>> }
  \cup { <<n>> : n \in Leaves \cup Leaves3 \cup Templates1 \cup Templates2 \cup Templates3 }
  \cup { <<a, b>> : a \in Leaves \cup Templates2, b \in Leaves \cup Templates2 }

\* TLV bytes received from outside: single objects cut short in the tag, in
\* the length field or in the value, and buffers with padding, a long-form
\* length, a template whose child runs past it
WholeTlv ==
  { build(builderItems(<<n>>)) :
      n \in { Leaf(TAG_PAN, <<1, 2>>), Leaf(TAG_AMOUNT, <<1>>), Leaf(TAG_PAR, <<7>>),
              Leaf(TAG_AMOUNT, Zeros(128)),
              Template(TAG_RECORD, <<Leaf(TAG_PAN, <<1, 2>>)>>) } }

TruncatedTlv == { Slice(b, 0, k) : b \in WholeTlv, k \in 1..6 } \ WholeTlv

TlvBuffers ==
  { <<>>, <<90, 1, 7>>, <<0, 90, 1, 7, 255>>, <<90, 129, 1, 7>>,
    <<112, 4, 90, 3, 1, 2>>, <<90, 129>>, <<90, 130, 1>>, <<90, 128>> }

\* new TLVBuilder() ... .build()
TlvBuild ==
  /\ probe.op = "tlv" /\ probe.stage = "new"
  /\ probe' = [probe EXCEPT !.stage = "encoded",
                            !.buffer = Some(build(builderItems(probe.arg)))]
  /\ UNCHANGED <<engineVars, orch, runA, runB, cards>>

\* TLVParser.parse(buffer): no path of it throws
TlvParse ==
  /\ probe.op \in {"tlv", "tlvBytes", "tlvTruncated"} /\ probe.stage = "encoded"
  /\ probe' = [probe EXCEPT !.stage = "decoded",
                            !.out = Returned(parse(probe.buffer[1]))]
  /\ UNCHANGED <<engineVars, orch, runA, runB, cards>>

\* the nodes a tree stands for: each with its tag, the bytes of its value,
\* their count, and the nodes of its children
RECURSIVE NodesOf(_)
NodesOf(nodes) ==
  [i \in 1..Len(nodes) |->
     LET bytes == IF nodes[i].constructed
                    THEN build(builderItems(nodes[i].children))
                    ELSE nodes[i].value
     IN [tag |-> nodes[i].tag,
         length |-> Len(bytes),
         value |-> bytes,
         constructed |-> nodes[i].constructed,
         children |-> NodesOf(nodes[i].children)]]

\* C19: parsing the bytes TLVBuilder built for a tree of leaves and nested
\* templates returns that tree: the same tags, lengths, values and children
\* in the same order.
C19_TlvRoundTrip ==
  (probe.op = "tlv" /\ probe.stage = "decoded") =>
    /\ ~probe.out.threw
    /\ probe.out.value = NodesOf(probe.arg)

\* every node's length is the number of bytes of its value
RECURSIVE LengthsMatch(_)
LengthsMatch(nodes) ==
  \A i \in 1..Len(nodes) :
    /\ nodes[i].length = Len(nodes[i].value)
    /\ LengthsMatch(nodes[i].children)

\* C20: TLVParser.parse fails with an error on bytes whose tag, length field
\* or announced value runs past the end of the buffer, as in every object cut
\* short, and no node it returns has a length other than the number of bytes
\* of its value.
C20_MalformedTlvFails ==
  (probe.op \in {"tlv", "tlvBytes", "tlvTruncated"} /\ probe.stage = "decoded") =>
    /\ probe.op = "tlvTruncated" => probe.out.threw
    /\ ~probe.out.threw => LengthsMatch(probe.out.value)

\* the first byte of a tag of any width
RECURSIVE FirstTagByte(_)
FirstTagByte(tag) == IF tag < 256 THEN tag ELSE FirstTagByte(tag \div 256)

\* every node is constructed, and has its value parsed into children, exactly
\* when bit 0x20 of the first byte of its tag is set
RECURSIVE ConstructedByFirstByte(_)
ConstructedByFirstByte(nodes) ==
  \A i \in 1..Len(nodes) :
    /\ nodes[i].constructed <=> (FirstTagByte(nodes[i].tag) \div 32) % 2 = 1
    /\ nodes[i].children =
         (IF (FirstTagByte(nodes[i].tag) \div 32) % 2 = 1
            THEN parse(nodes[i].value) ELSE <<>>)
    /\ ConstructedByFirstByte(nodes[i].children)

\* C21: whatever the width of a tag (one, two or three bytes), the parser
\* marks the node constructed and parses its value into children exactly
\* when bit 0x20 of the tag's first byte is set.
C21_ConstructedBitOfFirstByte ==
  (probe.op \in {"tlv", "tlvBytes"} /\ probe.stage = "decoded") =>
    ConstructedByFirstByte(probe.out.value)

\* the lengths encoded: both ends of each of the four bands
Lengths ==
  { 0, 1, 2, 6, 126, 127, 128, 129, 200, 254, 255, 256, 257, 4660, 32768, 65534,
    65535, 65536, 65537, 1193046, 8388608, 16777214, 16777215 }

\* builder.encodeLength(n)
EncodeLength ==
  /\ probe.op = "length" /\ probe.stage = "new"
  /\ probe' = [probe EXCEPT !.stage = "encoded",
                            !.buffer = Some(encodeLength(probe.arg))]
  /\ UNCHANGED <<engineVars, orch, runA, runB, cards>>

\* TLVParser.parseLength(buffer, 0)
ParseLength ==
  /\ probe.op = "length" /\ probe.stage = "encoded"
  /\ probe' = [probe EXCEPT !.stage = "decoded",
                            !.out = Returned(parseLength(probe.buffer[1], 0))]
  /\ UNCHANGED <<engineVars, orch, runA, runB, cards>>

\* C22: encodeLength(n) is the byte n below 128, 81 and one byte below 256,
\* 82 and two bytes below 65536, 83 and three bytes below 16777216, the
\* bytes being n in big-endian order; parseLength of these bytes returns n
\* as the length and their count as lengthBytes.
C22_LengthForm ==
  (probe.op = "length" /\ probe.stage = "decoded") =>
    LET n == probe.arg
        bytes == probe.buffer[1]
    IN /\ n < 128 => bytes = <<n>>
       /\ (128 <= n /\ n < 256) => bytes = <<129, n>>
       /\ (256 <= n /\ n < 65536) => bytes = <<130, n \div 256, n % 256>>
       /\ (65536 <= n /\ n < 16777216) =>
            bytes = <<131, n \div 65536, (n \div 256) % 256, n % 256>>
       /\ probe.out.value.length = n
       /\ probe.out.value.lengthBytes = Len(bytes)

\* 65536, the first length of the last band, has gone through both
C22_Witness ==
  /\ probe.op = "length" /\ probe.stage = "decoded"
  /\ probe.arg = 65536
  /\ probe.buffer[1] = <<131, 1, 0, 0>>
  /\ probe.out.value = [length |-> 65536, lengthBytes |-> 4]

\* the DOLs materialized: none, one and two entries, an entry of length 0,
\* the same tag twice
Dols ==
  { <<>>, <<159, 2, 6>>, <<159, 2, 6, 154, 3>>, <<149, 5, 159, 2, 2>>,
    <<159, 2, 0, 154, 1>>, <<159, 2, 6, 159, 2, 1>> }

\* the values supplied for 9F02: none, an empty string, shorter than any
\* entry, exactly six bytes, longer; with and without a value for 9A
DolValues ==
  { a @@ b :
      a \in { <<>>, (40706 :> <<>>), (40706 :> <<16>>), (40706 :> <<0, 16>>),
              (40706 :> <<1, 2, 3, 4, 5, 6>>),
              (40706 :> <<1, 2, 3, 4, 5, 6, 7, 8>>) },
      b \in { <<>>, (154 :> <<38, 17, 3>>), (154 :> <<38, 17, 3, 9>>) } }

\* DOLParser.parse(dolHex)
DolParse ==
  /\ probe.op = "dol" /\ probe.stage = "new"
  /\ probe' = [probe EXCEPT !.stage = "encoded",
                            !.derived = Some(dolParse(probe.arg.dol))]
  /\ UNCHANGED <<engineVars, orch, runA, runB, cards>>

\* DOLParser.buildData(dolEntries, values)
DolBuildData ==
  /\ probe.op = "dol" /\ probe.stage = "encoded"
  /\ probe' = [probe EXCEPT
                 !.stage = "decoded",
                 !.out = Returned(dolBuildData(probe.derived[1], probe.arg.values))]
  /\ UNCHANGED <<engineVars, orch, runA, runB, cards>>

\* the sum of the lengths of the first k entries
RECURSIVE LengthsBefore(_, _)
LengthsBefore(entries, k) ==
  IF k = 0 THEN 0 ELSE LengthsBefore(entries, k - 1) + entries[k].length

\* C23: the bytes buildData returns are, entry after entry in the order of
\* the DOL, entry.length bytes each: the value supplied for the entry's tag
\* aligned to the right, with zero bytes in front when it is shorter and its
\* leading bytes dropped when it is longer, and zero bytes only when no
\* value is supplied; in all, as many bytes as the entry lengths add up to.
C23_DolMaterialization ==
  (probe.op = "dol" /\ probe.stage = "decoded") =>
    LET entries == probe.derived[1]
        bytes == probe.out.value
        supplied(e) == IF e.tag \in DOMAIN probe.arg.values
                         THEN probe.arg.values[e.tag] ELSE <<>>
    IN /\ Len(bytes) = LengthsBefore(entries, Len(entries))
       /\ \A k \in 1..Len(entries) : \A j \in 1..entries[k].length :
            LET v == supplied(entries[k])
                from == j + Len(v) - entries[k].length
            IN bytes[LengthsBefore(entries, k - 1) + j] =
                 (IF from >= 1 THEN v[from] ELSE 0)

\* 9F02 06 followed by 9A 03 has been materialized from a two-byte amount and
\* a four-byte date: six bytes padded on the left, three bytes cut on the left
C23_Witness ==
  /\ probe.op = "dol" /\ probe.stage = "decoded"
  /\ probe.arg.dol = <<159, 2, 6, 154, 3>>
  /\ probe.arg.values = (40706 :> <<0, 16>>) @@ (154 :> <<38, 17, 3, 9>>)
  /\ probe.out.value = <<0, 0, 0, 0, 0, 16, 17, 3, 9>>

\* the AFLs read: no AFL, and up to two groups of four bytes (SFI in the top
\* five bits of the first byte, first record, last record, ODA records)
AflGroups ==
  { <<8, 1, 1, 0>>, <<8, 1, 2, 0>>, <<8, 1, 2, 1>>, <<16, 2, 4, 2>>,
    <<16, 3, 3, 5>>, <<248, 1, 1, 1>>, <<12, 2, 1, 0>> }

Afls ==
  { Null, Some(<<>>) } \cup { Some(g) : g \in AflGroups }
  \cup { Some(g \o h) : g \in AflGroups, h \in AflGroups }

\* the context of a transaction whose GPO response carried the AFL, or none
ParseAFL ==
  /\ probe.op = "afl" /\ probe.stage = "new"
  /\ probe' = [probe EXCEPT
                 !.stage = "encoded",
                 !.derived = Some([NewContext EXCEPT
                                     !.state = "READ_APPLICATION_DATA",
                                     !.afl = IF IsNull(probe.arg) THEN Null
                                             ELSE Some(parseAFL(probe.arg[1]))])]
  /\ UNCHANGED <<engineVars, orch, runA, runB, cards>>

\* engine.generateReadCommands(ctx): reads ctx, writes nothing to it
GenerateReadCommands ==
  /\ probe.op = "afl" /\ probe.stage = "encoded"
  /\ probe' = [probe EXCEPT
                 !.stage = "decoded",
                 !.out = Returned(generateReadCommands(probe.derived[1]))]
  /\ UNCHANGED <<engineVars, orch, runA, runB, cards>>

\* the number of records of the first k entries
RECURSIVE RecordsBefore(_, _)
RecordsBefore(entries, k) ==
  IF k = 0 THEN 0
  ELSE RecordsBefore(entries, k - 1)
       + (IF entries[k].lastRecord >= entries[k].firstRecord
            THEN entries[k].lastRecord - entries[k].firstRecord + 1 ELSE 0)

\* C24: generateReadCommands returns nothing without an AFL; with one, for
\* each entry in AFL order (SFI = first byte >> 3, then first record, last
\* record, ODA records) and each record number from firstRecord to
\* lastRecord, one READ RECORD command with the record in P1 and P2 =
\* SFI * 8 + 4, its sfi and record, and includeInODA exactly when
\* record - firstRecord < numODARecords; the context stays as it was.
C24_ReadCommands ==
  (probe.op = "afl" /\ probe.stage = "decoded") =>
    LET list == probe.out.value
    IN /\ IsNull(probe.arg) => list = <<>>
       /\ probe.derived[1].state = "READ_APPLICATION_DATA"
       /\ ~IsNull(probe.arg) =>
            LET bytes == probe.arg[1]
                entries == probe.derived[1].afl[1]
            IN /\ Len(entries) = Len(bytes) \div 4
               /\ \A k \in 1..Len(entries) :
                    /\ entries[k].sfi = bytes[4 * k - 3] \div 8
                    /\ entries[k].firstRecord = bytes[4 * k - 2]
                    /\ entries[k].lastRecord = bytes[4 * k - 1]
                    /\ entries[k].numODARecords = bytes[4 * k]
               /\ Len(list) = RecordsBefore(entries, Len(entries))
               /\ \A k \in 1..Len(entries) :
                    \A rec \in entries[k].firstRecord..entries[k].lastRecord :
                      LET made == list[RecordsBefore(entries, k - 1)
                                       + rec - entries[k].firstRecord + 1]
                      IN /\ made.command.ins = "READ_RECORD"
                         /\ made.command.p1 = rec
                         /\ made.command.p2 \div 8 = entries[k].sfi
                         /\ made.command.p2 % 8 = 4
                         /\ made.sfi = entries[k].sfi
                         /\ made.record = rec
                         /\ made.includeInODA <=>
                              (rec - entries[k].firstRecord < entries[k].numODARecords)

\* SFI 2 records 2 to 4 with two ODA records, then SFI 1 record 1: four
\* commands, the first two of them for ODA
C24_Witness ==
  /\ probe.op = "afl" /\ probe.stage = "decoded"
  /\ probe.arg = Some(<<16, 2, 4, 2, 8, 1, 1, 0>>)
  /\ Len(probe.out.value) = 4
  /\ probe.out.value[2].includeInODA /\ ~probe.out.value[3].includeInODA
  /\ probe.out.value[3].command.p1 = 4 /\ probe.out.value[3].command.p2 = 20
  /\ probe.out.value[4].command.p2 = 12

\* ---------------------------------------------------------------------------
\* The engine's checks called on their own
\* a detector that reports the change of kernel only
detectKernelFallback_single(preferredKernel, actualKernel, terminalCapabilities) ==
  IF preferredKernel # actualKernel
    THEN <<[type |-> "KERNEL_FALLBACK", severity |-> "WARNING",
            preferred |-> preferredKernel, actual |-> actualKernel]>>
    ELSE <<>>

\* EMVProtocolEngine.detectKernelFallback
detectKernelFallback(preferredKernel, actualKernel, terminalCapabilities) ==
  (IF preferredKernel # actualKernel
     THEN <<[type |-> "KERNEL_FALLBACK", severity |-> "WARNING",
             preferred |-> preferredKernel, actual |-> actualKernel]>>
     ELSE <<>>)
  \o (IF preferredKernel = KERNEL_C8 /\ actualKernel # KERNEL_C8
        THEN <<[type |-> "C8_FALLBACK", severity |-> "WARNING"]>>
        ELSE <<>>)

\* KernelID.C1 .. KernelID.C8, and the kernel of a context that has none yet
KernelIds == {Undef} \cup 1..8

\* engine.detectKernelFallback(preferred, actual, capabilities)
DetectKernelFallback ==
  /\ probe.op = "fallback" /\ probe.stage = "new"
  /\ probe' = [probe EXCEPT
                 !.stage = "decoded",
                 !.out = Returned(detectKernelFallback(probe.arg.preferred,
                                    probe.arg.actual, probe.arg.capabilities))]
  /\ UNCHANGED <<engineVars, orch, runA, runB, cards>>

\* the issues of a type in a list
OfType(issues, type) == SelectSeq(issues, LAMBDA i : i.type = type)

\* C25: detectKernelFallback returns one KERNEL_FALLBACK issue of severity
\* WARNING exactly when the preferred kernel is not the actual one, one
\* C8_FALLBACK issue of severity WARNING exactly when the preferred kernel is
\* C8 and the actual one is not, and nothing else: both for C8 and C6, none
\* for equal kernels; the terminal capabilities play no part.
C25_KernelFallback ==
  (probe.op = "fallback" /\ probe.stage = "decoded") =>
    LET issues == probe.out.value
        differ == probe.arg.preferred # probe.arg.actual
        fromC8 == probe.arg.preferred = 8 /\ probe.arg.actual # 8
    IN /\ Len(OfType(issues, "KERNEL_FALLBACK")) = (IF differ THEN 1 ELSE 0)
       /\ Len(OfType(issues, "C8_FALLBACK")) = (IF fromC8 THEN 1 ELSE 0)
       /\ Len(issues) = (IF differ THEN 1 ELSE 0) + (IF fromC8 THEN 1 ELSE 0)
       /\ \A i \in 1..Len(issues) : issues[i].severity = "WARNING"

\* preferred C8, actual C6: the two issues
C25_Witness ==
  /\ probe.op = "fallback" /\ probe.stage = "decoded"
  /\ probe.arg.preferred = 8 /\ probe.arg.actual = 6
  /\ Len(probe.out.value) = 2
  /\ probe.out.value[1].type = "KERNEL_FALLBACK"
  /\ probe.out.value[2].type = "C8_FALLBACK"

\* Form Factor Indicators of one to five bytes; the second byte carries the
\* form factor in its low nibble: 0, 6, 7 and 15, with and without high bits
FfiSecondBytes == {0, 6, 7, 15, 22, 119}

Ffis ==
  { <<32>> }
  \cup { <<32, b>> : b \in FfiSecondBytes }
  \cup { <<32, b, 0>> : b \in FfiSecondBytes }
  \cup { <<32, b, 0, 0>> : b \in FfiSecondBytes }
  \cup { <<32, b, 0, 0, 1>> : b \in FfiSecondBytes }

\* engine.processSelectResponse(ctx, response) on a new context, the response
\* being the FCI of an application with a kernel identifier and an FFI:
\* the kernel is taken from 9F2A, then validateFFI runs on 9F6E
SelectWithFFI ==
  /\ probe.op = "ffi" /\ probe.stage = "new"
  /\ probe' = [probe EXCEPT
                 !.stage = "decoded",
                 !.out = Returned(processSelectResponse(
                           NewContext,
                           FciResponse(probe.arg.kernel, probe.arg.ffi),
                           probe.arg.detectInteropIssues).ctx)]
  /\ UNCHANGED <<engineVars, orch, runA, runB, cards>>

\* C26: with detection on, validateFFI records one FFI_LENGTH issue of
\* severity WARNING when the FFI is not 4 bytes long, shorter or longer, and
\* none when it is.
C26_FfiLength ==
  (probe.op = "ffi" /\ probe.stage = "decoded" /\ probe.arg.detectInteropIssues) =>
    LET found == OfType(probe.out.value.interopIssues, "FFI_LENGTH")
    IN /\ Len(found) = (IF Len(probe.arg.ffi) # 4 THEN 1 ELSE 0)
       /\ \A i \in 1..Len(found) : found[i].severity = "WARNING"

\* C27: with detection on, a 3-byte FFI gets exactly one FFI_LENGTH issue of
\* severity WARNING and, whatever its bytes, no FFI_INVALID_FORM_FACTOR
\* issue.
C27_ShortFfi ==
  (probe.op = "ffi" /\ probe.stage = "decoded" /\ probe.arg.detectInteropIssues
     /\ Len(probe.arg.ffi) = 3) =>
    LET issues == probe.out.value.interopIssues
    IN /\ Len(OfType(issues, "FFI_LENGTH")) = 1
       /\ OfType(issues, "FFI_LENGTH")[1].severity = "WARNING"
       /\ OfType(issues, "FFI_INVALID_FORM_FACTOR") = <<>>

\* C28: with detection on, a 4-byte FFI gets exactly one
\* FFI_INVALID_FORM_FACTOR issue of severity ERROR when the low nibble of its
\* second byte is above 6 and none otherwise, and one FFI_C8_KERNEL issue of
\* severity INFO exactly when the context's kernel is C8; with detection off
\* nothing is recorded.
C28_FormFactor ==
  (probe.op = "ffi" /\ probe.stage = "decoded" /\ Len(probe.arg.ffi) = 4) =>
    LET issues == probe.out.value.interopIssues
        bad == OfType(issues, "FFI_INVALID_FORM_FACTOR")
        note == OfType(issues, "FFI_C8_KERNEL")
    IN IF probe.arg.detectInteropIssues
         THEN /\ Len(bad) = (IF probe.arg.ffi[2] % 16 > 6 THEN 1 ELSE 0)
              /\ \A i \in 1..Len(bad) : bad[i].severity = "ERROR"
              /\ Len(note) = (IF probe.out.value.kernel = Some(8) THEN 1 ELSE 0)
              /\ \A i \in 1..Len(note) : note[i].severity = "INFO"
              /\ Len(issues) = Len(bad) + Len(note)
         ELSE issues = <<>>

\* a 4-byte FFI with form factor 7 under kernel C8: the error and the note
C28_Witness ==
  /\ probe.op = "ffi" /\ probe.stage = "decoded" /\ probe.arg.detectInteropIssues
  /\ probe.arg.ffi = <<32, 119, 0, 0>>
  /\ probe.out.value.kernel = Some(8)
  /\ Len(probe.out.value.interopIssues) = 2
  /\ probe.out.value.interopIssues[1].type = "FFI_INVALID_FORM_FACTOR"
  /\ probe.out.value.interopIssues[2].type = "FFI_C8_KERNEL"

\* READ RECORD responses with and without a Payment Account Reference of 0,
\* 2, 28, 29 or 30 bytes, alone in the record or after the PAN
ParValues == { [i \in 1..n |-> 80] : n \in {0, 2, 28, 29, 30} }

ParRecords ==
  { [par |-> Null, response |-> error(SW_RECORD_NOT_FOUND)],
    [par |-> Null, response |-> RecordPan] }
  \cup { [par |-> Some(v),
          response |-> success(build(<<addConstructed(TAG_RECORD,
                         <<addPrimitive(TAG_PAR, v)>>)>>))] : v \in ParValues }
  \cup { [par |-> Some(v),
          response |-> success(build(<<addConstructed(TAG_RECORD,
                         <<addPrimitive(TAG_PAN, <<84, 19>>),
                           addPrimitive(TAG_PAR, v)>>)>>))] : v \in ParValues }

\* engine.processReadRecordResponse(ctx, response, 1, 1) on a context that
\* is reading application data
ReadRecordWithPAR ==
  /\ probe.op = "par" /\ probe.stage = "new"
  /\ probe' = [probe EXCEPT
                 !.stage = "decoded",
                 !.out = Returned(processReadRecordResponse(
                           [NewContext EXCEPT !.state = "READ_APPLICATION_DATA"],
                           probe.arg.response, 1, 1,
                           probe.arg.detectInteropIssues).ctx)]
  /\ UNCHANGED <<engineVars, orch, runA, runB, cards>>

\* C29: with detection on, a successfully read record that holds a PAR (tag
\* DF8101) gets a PAR_LENGTH issue of severity WARNING exactly when the PAR
\* is not 29 bytes long, followed in every case by one PAR_LEGACY_CHECK
\* issue of severity INFO; a record without a PAR, a failed read, and an
\* engine with detection off get none.
C29_ParValidation ==
  (probe.op = "par" /\ probe.stage = "decoded") =>
    LET issues == probe.out.value.interopIssues
        held == ~IsNull(probe.arg.par) /\ probe.arg.detectInteropIssues
    IN /\ ~held => issues = <<>>
       /\ held =>
            /\ Len(OfType(issues, "PAR_LENGTH")) =
                 (IF Len(probe.arg.par[1]) # 29 THEN 1 ELSE 0)
            /\ \A i \in 1..Len(issues) :
                 issues[i].type = "PAR_LENGTH" => issues[i].severity = "WARNING"
            /\ Len(OfType(issues, "PAR_LEGACY_CHECK")) = 1
            /\ issues[Len(issues)] =
                 [type |-> "PAR_LEGACY_CHECK", severity |-> "INFO",
                  state |-> "READ_APPLICATION_DATA"]
            /\ Len(issues) = Len(OfType(issues, "PAR_LENGTH")) + 1

\* a record with a PAN and a 30-byte PAR has been read: both issues
C29_Witness ==
  /\ probe.op = "par" /\ probe.stage = "decoded" /\ probe.arg.detectInteropIssues
  /\ ~IsNull(probe.arg.par) /\ Len(probe.arg.par[1]) = 30
  /\ Len(probe.out.value.records) = 1
  /\ Len(probe.out.value.records[1].data[1].children) = 2
  /\ Len(probe.out.value.interopIssues) = 2
  /\ probe.out.value.interopIssues[1].type = "PAR_LENGTH"

\* ---------------------------------------------------------------------------
\* cardData over a sequence of responses
\* ---------------------------------------------------------------------------
MaxResponses == 3

RecordPan2 == success(build(<<addConstructed(TAG_RECORD, <<
    addPrimitive(TAG_PAN, <<84, 20>>)>>)>>))

\* successful responses, each with the call that processes it; the kernel
\* identifier, the AIP and the PAN occur in several of them with other values
ResponseSteps ==
  { [call |-> "processSelectResponse", response |-> r] :
      r \in { FciResponse(KERNEL_C2, <<>>),
              FciResponse(KERNEL_C8, <<32, 119, 0, 0>>) } }
  \cup { [call |-> "processGPOResponse", response |-> r] :
      r \in { GpoFormat1(AIP_DEFAULT, AFL_SFI1),
              GpoFormat2(AIP_DEFAULT, AFL_SFI1),
              GpoFormat2(<<25, 128>>, AFL_SFI1) } }
  \cup { [call |-> "processReadRecordResponse", response |-> r] :
      r \in { RecordCdol, RecordPan, RecordPan2, RecordPar } }

ResponseSequences == UNION { [1..n -> ResponseSteps] : n \in 1..MaxResponses }

\* the engine call that takes a response
processResponse(c, step) ==
  CASE step.call = "processSelectResponse" ->
         processSelectResponse(c, step.response, TRUE)
    [] step.call = "processGPOResponse" ->
         processGPOResponse(c, step.response)
    [] OTHER ->
         processReadRecordResponse(c, step.response, 1, 1, TRUE)

\* the next response of the sequence is given to the engine, on the context
\* the earlier ones left
ProcessNextResponse ==
  /\ probe.op = "cardData"
  /\ \E done \in { IF IsNull(probe.derived) THEN 0 ELSE probe.derived[1] } :
       /\ done < Len(probe.arg)
       /\ \E before \in { IF done = 0 THEN NewContext ELSE probe.out.value.ctx } :
            \E o \in { processResponse(before, probe.arg[done + 1]) } :
              probe' = [probe EXCEPT
                          !.stage = "decoded",
                          !.derived = Some(done + 1),
                          !.out = Returned([before |-> before, ctx |-> o.ctx,
                                            ok |-> o.ok /\ ~o.threw])]
  /\ UNCHANGED <<engineVars, orch, runA, runB, cards>>

\* the tags of a list of TLV nodes with their values, templates before
\* their children
RECURSIVE TagsSeen(_)
TagsSeen(nodes) ==
  IF nodes = <<>> THEN <<>>
  ELSE <<[tag |-> Head(nodes).tag, value |-> Head(nodes).value]>>
       \o TagsSeen(Head(nodes).children)
       \o TagsSeen(Tail(nodes))

\* the tags of the first n responses of a sequence, in the order received
RECURSIVE TagsReceived(_, _)
TagsReceived(steps, n) ==
  IF n = 0 THEN <<>>
  ELSE TagsReceived(steps, n - 1) \o TagsSeen(parse(steps[n].response.data))

\* C30: after any sequence of successful SELECT, GPO and READ RECORD
\* responses cardData holds every TLV tag seen in them, nested tags
\* included, each with the value of its most recent occurrence, and no
\* call removes an entry.
C30_CardDataAccumulates ==
  (probe.op = "cardData" /\ probe.stage = "decoded" /\ probe.out.value.ok) =>
    LET cardData == probe.out.value.ctx.cardData
        seen == TagsReceived(probe.arg, probe.derived[1])
    IN /\ DOMAIN probe.out.value.before.cardData \subseteq DOMAIN cardData
       /\ \A i \in 1..Len(seen) :
            /\ seen[i].tag \in DOMAIN cardData
            /\ (\A j \in (i + 1)..Len(seen) : seen[j].tag # seen[i].tag)
                 => cardData[seen[i].tag] = seen[i].value

\* the same statement for the responses that are BER-TLV templates, a
\* Format 1 GPO response left out of the tags to be held
C30_TemplatesAccumulate ==
  (probe.op = "cardData" /\ probe.stage = "decoded" /\ probe.out.value.ok) =>
    LET cardData == probe.out.value.ctx.cardData
        seen == SelectSeq(TagsReceived(probe.arg, probe.derived[1]),
                          LAMBDA p : p.tag # TAG_FORMAT1)
    IN /\ DOMAIN probe.out.value.before.cardData \subseteq DOMAIN cardData
       /\ \A i \in 1..Len(seen) :
            /\ seen[i].tag \in DOMAIN cardData
            /\ (\A j \in (i + 1)..Len(seen) : seen[j].tag # seen[i].tag)
                 => cardData[seen[i].tag] = seen[i].value

\* ---------------------------------------------------------------------------
\* DiscoverCardEmulator.selectKernel
\* ---------------------------------------------------------------------------
KERNEL_C6 == 6

\* the kernel fields of the profiles of DiscoverCardProfileFactory:
\* createDPAS_1_0, createDPAS_2_0 and createDPAS_2_1 (C6, no C8),
\* createDPAS_3_0 (C6, C8 ready) and createC8 (C8)
DiscoverProfile(kernelId, supportsC8) ==
  [kernelId |-> kernelId, supportsC8 |-> supportsC8]

createDPAS_2_1 == DiscoverProfile(KERNEL_C6, FALSE)
createDPAS_3_0 == DiscoverProfile(KERNEL_C6, TRUE)
createDiscoverC8 == DiscoverProfile(KERNEL_C8, TRUE)

DiscoverProfiles == {createDPAS_2_1, createDPAS_3_0, createDiscoverC8}

\* the kernel lists of the terminals a Discover card is presented to
TerminalKernelLists == SUBSET {KERNEL_C2, 3, KERNEL_C6, KERNEL_C8}

\* a selection that follows the card alone
selectKernel_cardOnly(profile, terminalSupportedKernels) ==
  IF profile.supportsC8 THEN Some(KERNEL_C8)
  ELSE IF KERNEL_C6 \in terminalSupportedKernels THEN Some(KERNEL_C6)
  ELSE Null

\* DiscoverCardEmulator.selectKernel
selectKernel(profile, terminalSupportedKernels) ==
  IF profile.supportsC8 /\ KERNEL_C8 \in terminalSupportedKernels
    THEN Some(KERNEL_C8)
  ELSE IF KERNEL_C6 \in terminalSupportedKernels
    THEN Some(KERNEL_C6)
  ELSE Null

SelectKernel ==
  /\ probe.op = "selectKernel" /\ probe.stage = "new"
  /\ probe' = [probe EXCEPT
                 !.stage = "decoded",
                 !.out = Returned(selectKernel(probe.arg.profile, probe.arg.kernels))]
  /\ UNCHANGED <<engineVars, orch, runA, runB, cards>>

\* C31: selectKernel returns C8 exactly when the card supports C8 and the
\* terminal's list contains C8, otherwise C6 exactly when the list contains
\* C6, otherwise null; a D-PAS 3.0 card on a terminal with C6 and without C8
\* gets C6, and a returned kernel is always in the terminal's list.
C31_DiscoverKernelSelection ==
  (probe.op = "selectKernel" /\ probe.stage = "decoded") =>
    LET kernel == probe.out.value
        card == probe.arg.profile
        listed == probe.arg.kernels
    IN /\ kernel \in {Null, Some(KERNEL_C6), Some(KERNEL_C8)}
       /\ (kernel = Some(KERNEL_C8)) <=> (card.supportsC8 /\ KERNEL_C8 \in listed)
       /\ (kernel # Some(KERNEL_C8)) =>
            ((kernel = Some(KERNEL_C6)) <=> (KERNEL_C6 \in listed))
       /\ (card = createDPAS_3_0 /\ KERNEL_C8 \notin listed /\ KERNEL_C6 \in listed)
            => kernel = Some(KERNEL_C6)
       /\ (~IsNull(kernel)) => kernel[1] \in listed

C31_Witness ==
  /\ probe.op = "selectKernel" /\ probe.stage = "decoded"
  /\ probe.arg.profile = createDPAS_3_0
  /\ probe.arg.kernels = {KERNEL_C2, 3, KERNEL_C6}
  /\ probe.out.value = Some(KERNEL_C6)

\* ---------------------------------------------------------------------------
\* C8 cards on terminals without C8
\* ---------------------------------------------------------------------------
\* the kernel the directory entry of the PPSE response asked for; the entry
\* (tag 61) stays in cardData from selectApplicationFromPPSE on
RequestedByDirectory(c) ==
  IF TAG_DIR_ENTRY \in DOMAIN c.cardData
    THEN LET kernelId == findTag(parse(c.cardData[TAG_DIR_ENTRY]), TAG_KERNEL_ID)
         IN IF IsNull(kernelId) THEN Null ELSE Some(At(kernelId[1].value, 0))
    ELSE Null

HasIssue(issues, type, severity) ==
  \E i \in 1..Len(issues) : issues[i].type = type /\ issues[i].severity = severity

\* C32: whenever a card whose PPSE directory entry requests kernel C8 is
\* presented to a terminal that does not support C8, the result of
\* executeContactlessTransaction holds a C8_NOT_SUPPORTED issue of severity
\* WARNING.
C32_C8NotSupportedRecorded ==
  (/\ ~IsNull(result)
   /\ RequestedByDirectory(ctx) = Some(KERNEL_C8)
   /\ ~config.supportsC8 /\ ~supportsKernel(config, KERNEL_C8))
    => HasIssue(result[1].interopIssues, "C8_NOT_SUPPORTED", "WARNING")

\* the same on the terminals that select an application for the card
C32_LegacyRecorded ==
  (/\ ~IsNull(result)
   /\ RequestedByDirectory(ctx) = Some(KERNEL_C8)
   /\ ~config.supportsC8 /\ ~supportsKernel(config, KERNEL_C8)
   /\ config.legacyMode)
    => HasIssue(result[1].interopIssues, "C8_NOT_SUPPORTED", "WARNING")

C32_LegacyReached ==
  /\ ~IsNull(result)
  /\ RequestedByDirectory(ctx) = Some(KERNEL_C8)
  /\ config.legacyMode /\ ~config.supportsC8
  /\ result[1].success

\* ===========================================================================
\* A card emulator given commands one after another
\* (CardEmulator.processCommand on CommandAPDU objects, and reset)
\* ===========================================================================
INS_GET_DATA == 202
INS_VERIFY == 32
INS_INTERNAL_AUTHENTICATE == 136
INS_COMPUTE_CRYPTOGRAPHIC_CHECKSUM == 42
SW_REFERENCED_DATA_NOT_FOUND == 27272

MaxCommands == 4

\* crypto.randomBytes(n): one of the values it can return
randomBytes(n, seed) == [i \in 1..n |-> seed]

RandomSeeds == {17, 171}

\* CardEmulator.processGetData: the tag is P2, or P1 P2 when P1 is not zero
processGetData(card, cmd) ==
  LET tag == IF cmd.p1 = 0 THEN cmd.p2 ELSE cmd.p1 * 256 + cmd.p2
  IN IF tag \in DOMAIN card.profile.staticData /\ card.profile.staticData[tag] # <<>>
       THEN Answer(card, success(build(<<addPrimitive(tag, card.profile.staticData[tag])>>)))
       ELSE Answer(card, error(SW_REFERENCED_DATA_NOT_FOUND))

\* CardEmulator.processVerify
processVerify(card, cmd) == Answer(card, success(<<>>))

\* CardEmulator.processInternalAuth
processInternalAuth(card, cmd, seed) == Answer(card, success(randomBytes(64, seed)))

\* CardEmulator.processCCC: CVC3 in tag 9F61
processCCC(card, cmd, seed) ==
  Answer(card, success(build(<<addPrimitive(40801, randomBytes(2, seed))>>)))

\* the fields of a CommandAPDU a command processor reads; cmd.data is used
\* by processSelect alone
fieldsOf(apdu, name) ==
  [ins |-> name, p1 |-> apdu.p1, p2 |-> apdu.p2,
   data |-> IF IsNull(apdu.data) THEN <<>> ELSE apdu.data[1]]

\* what processCommand ends in: the card it leaves, and the response it
\* returned unless it threw
Processed(card, response, threw) ==
  [card |-> card, response |-> response, threw |-> threw]

\* CardEmulator.processCommand given a CommandAPDU.  The command is logged,
\* the switch over cmd.ins runs the processor of the instruction, and the
\* response is logged and returned.  processSelect evaluates
\* cmd.data.toString('hex') once P1 is 04: on a command without a data
\* field cmd.data is null and this throws, after the command was logged.
CardEmulator_processCommand(card, apdu, seed) ==
  LET logged == [card EXCEPT !.transactionLog =
                   Append(@, [type |-> "COMMAND", apdu |-> CommandAPDU_toBuffer(apdu)])]
      a == CASE apdu.ins = INS_SELECT ->
                  processSelect(logged, fieldsOf(apdu, "SELECT"))
             [] apdu.ins = INS_GET_PROCESSING_OPTIONS ->
                  processGPO(logged, fieldsOf(apdu, "GET_PROCESSING_OPTIONS"))
             [] apdu.ins = INS_READ_RECORD ->
                  processReadRecord(logged, fieldsOf(apdu, "READ_RECORD"))
             [] apdu.ins = INS_GET_DATA ->
                  processGetData(logged, fieldsOf(apdu, "GET_DATA"))
             [] apdu.ins = INS_GENERATE_AC ->
                  processGenerateAC(logged, fieldsOf(apdu, "GENERATE_AC"),
                                    randomBytes(8, seed))
             [] apdu.ins = INS_VERIFY ->
                  processVerify(logged, fieldsOf(apdu, "VERIFY"))
             [] apdu.ins = INS_INTERNAL_AUTHENTICATE ->
                  processInternalAuth(logged, fieldsOf(apdu, "INTERNAL_AUTHENTICATE"), seed)
             [] apdu.ins = INS_COMPUTE_CRYPTOGRAPHIC_CHECKSUM ->
                  processCCC(logged, fieldsOf(apdu, "COMPUTE_CRYPTOGRAPHIC_CHECKSUM"), seed)
             [] OTHER -> Answer(logged, error(SW_INS_NOT_SUPPORTED))
  IN IF apdu.ins = INS_SELECT /\ apdu.p1 = 4 /\ IsNull(apdu.data)
       THEN Processed(logged, NoCall.response, TRUE)
       ELSE Processed([a.card EXCEPT !.transactionLog =
                         Append(@, [type |-> "RESPONSE",
                                    apdu |-> a.response.data
                                             \o <<a.response.sw \div 256,
                                                  a.response.sw % 256>>])],
                      a.response, FALSE)

\* a reset that starts the transaction counter again
reset_atc(card) ==
  [card EXCEPT !.selectedAID = Null, !.currentState = "IDLE",
               !.transactionLog = <<>>, !.atc = 1]

\* CardEmulator.reset
reset(card) ==
  [card EXCEPT !.selectedAID = Null, !.currentState = "IDLE",
               !.transactionLog = <<>>]

\* the commands given to the card: the terminal's commands, for records the
\* card holds and for one it does not, the other instructions of the
\* switch, an instruction outside it, and a SELECT without a data field
CardCommands ==
  { commandAPDU(selectCommand(AID_MC)),
    commandAPDU(getProcessingOptions(<<>>)),
    commandAPDU(readRecord(1, 1)),
    commandAPDU(readRecord(3, 1)),
    commandAPDU(generateAC(ARQC, <<>>)),
    CommandAPDU(CLA_ISO, INS_SELECT, 4, 0, Null, Null),
    CommandAPDU(CLA_PROPRIETARY, INS_GET_DATA, 0, TAG_PAN, Null, Some(0)),
    CommandAPDU(CLA_ISO, INS_VERIFY, 0, 128, Some(<<36, 18, 52, 255>>), Null),
    CommandAPDU(CLA_ISO, INS_INTERNAL_AUTHENTICATE, 0, 0, Some(<<1, 2, 3, 4>>), Some(0)),
    CommandAPDU(CLA_PROPRIETARY, INS_COMPUTE_CRYPTOGRAPHIC_CHECKSUM, 142, 128,
                Some(<<0, 0, 0, 1>>), Some(0)),
    CommandAPDU(CLA_ISO, 255, 0, 0, Null, Null) }

\* what the exchanges with the card have been: the calls made, whether an
\* application was selected with no GET PROCESSING OPTIONS answered since,
\* whether a GET PROCESSING OPTIONS was answered with success, and the
\* GENERATE AC commands answered with success since
NoExchanges == [steps |-> 0, selected |-> FALSE, gpoOk |-> FALSE, acSinceGpo |-> 0]

Exchanged(h, apdu, p) ==
  LET ok == ~p.threw /\ isSuccess(p.response.sw)
  IN [steps |-> h.steps + 1,
      selected |-> IF ok /\ apdu.ins = INS_GET_PROCESSING_OPTIONS THEN FALSE
                   ELSE IF ok /\ apdu.ins = INS_SELECT
                           /\ apdu.data \notin {Some(PPSE_NAME), Some(PSE_NAME)} THEN TRUE
                   ELSE h.selected,
      gpoOk |-> h.gpoOk \/ (ok /\ apdu.ins = INS_GET_PROCESSING_OPTIONS),
      acSinceGpo |-> IF ok /\ apdu.ins = INS_GET_PROCESSING_OPTIONS THEN 0
                     ELSE IF ok /\ apdu.ins = INS_GENERATE_AC THEN h.acSinceGpo + 1
                     ELSE h.acSinceGpo]

InitCard ==
  /\ ctx = NewContext /\ ctxOff = NewContext
  /\ pc = "IDLE" /\ pending = <<>>
  /\ genac = Null /\ result = Null /\ transactionHistory = <<>>
  /\ config = ModernTerminal /\ amount = 0
  /\ orch = Null /\ runA = Null /\ runB = Null /\ probe = Null
  /\ hist = NoExchanges
  /\ sent = <<>>
  /\ last = NoCall
  /\ cards \in { [cardA |-> c] : c \in {createMastercardContactless, createC8Card} }

cardUnchanged ==
  <<ctx, ctxOff, pc, pending, genac, result, transactionHistory, config, amount,
    orch, runA, runB, probe>>

\* card.processCommand(apdu)
CardProcessCommand ==
  /\ hist.steps < MaxCommands
  /\ \E apdu \in CardCommands, seed \in RandomSeeds :
       \E p \in { CardEmulator_processCommand(cards.cardA, apdu, seed) } :
         /\ cards' = [cards EXCEPT !.cardA = p.card]
         /\ sent' = Append(sent, apdu)
         /\ last' = Exchange("processCommand", p.response, p.threw)
         /\ hist' = Exchanged(hist, apdu, p)
  /\ UNCHANGED cardUnchanged

\* card.processCommand(hexString) with a string CommandAPDU.fromHex rejects:
\* the exception leaves the card as it was
CardProcessMalformed ==
  /\ hist.steps < MaxCommands
  /\ \E b \in { <<>>, <<0, 164, 4>>, <<0, 164, 4, 0, 2, 1>> } :
       /\ CommandAPDU_fromBuffer(b).threw
       /\ last' = Exchange("fromHex", NoCall.response, TRUE)
  /\ hist' = [hist EXCEPT !.steps = @ + 1]
  /\ UNCHANGED <<cards, sent>>
  /\ UNCHANGED cardUnchanged

\* card.reset()
CardReset ==
  /\ hist.steps < MaxCommands
  /\ cards' = [cards EXCEPT !.cardA = reset(@)]
  /\ last' = Exchange("reset", NoCall.response, FALSE)
  /\ hist' = [hist EXCEPT !.steps = @ + 1]
  /\ UNCHANGED sent
  /\ UNCHANGED cardUnchanged

NextCard == CardProcessCommand \/ CardProcessMalformed \/ CardReset

SpecCard == InitCard /\ [][NextCard]_vars

\* ---------------------------------------------------------------------------
\* Command gating
\* ---------------------------------------------------------------------------
\* the command of the step, when the step gave a command to the card
CommandGiven == sent' # sent

GivenCommand == sent'[Len(sent')]

AnsweredOk == ~last'.threw /\ isSuccess(last'.response.sw)

\* the card refused the command: 6985, and nothing of its state changed
Refused ==
  /\ ~last'.threw
  /\ last'.response = error(SW_CONDITIONS_NOT_SATISFIED)
  /\ cards'.cardA.currentState = cards.cardA.currentState
  /\ cards'.cardA.selectedAID = cards.cardA.selectedAID
  /\ cards'.cardA.atc = cards.cardA.atc
  /\ cards'.cardA.profile = cards.cardA.profile

\* C33: for any sequence of commands, GET PROCESSING OPTIONS is answered
\* with success only in state SELECTED (an application was selected and no
\* GPO answered since), READ RECORD only after a successful GPO, GENERATE AC
\* only after a successful GPO and at most once per GPO; in every other
\* state the answer is 6985 and the card's state is unchanged.
C33_CommandGating ==
  [][CommandGiven =>
       /\ GivenCommand.ins = INS_GET_PROCESSING_OPTIONS =>
            /\ AnsweredOk => (cards.cardA.currentState = "SELECTED" /\ hist.selected)
            /\ cards.cardA.currentState # "SELECTED" => Refused
       /\ GivenCommand.ins = INS_READ_RECORD =>
            /\ AnsweredOk => (hist.gpoOk /\ hist.acSinceGpo = 0)
            /\ cards.cardA.currentState \notin {"GPO_COMPLETE", "READING"} => Refused
       /\ GivenCommand.ins = INS_GENERATE_AC =>
            /\ AnsweredOk => (hist.gpoOk /\ hist.acSinceGpo = 0)
            /\ cards.cardA.currentState \notin {"GPO_COMPLETE", "READING"} => Refused
       /\ (~AnsweredOk /\ ~last'.threw
           /\ GivenCommand.ins \in {INS_GET_PROCESSING_OPTIONS, INS_READ_RECORD,
                                    INS_GENERATE_AC})
            => Refused
    ]_vars

\* a second GENERATE AC after the same GPO has just been refused
C33_Witness ==
  /\ Len(sent) = 4
  /\ sent[1].ins = INS_SELECT /\ sent[2].ins = INS_GET_PROCESSING_OPTIONS
  /\ sent[3].ins = INS_GENERATE_AC /\ sent[4].ins = INS_GENERATE_AC
  /\ hist.acSinceGpo = 1
  /\ last.response = error(SW_CONDITIONS_NOT_SATISFIED)
  /\ cards.cardA.currentState = "AC_GENERATED"

\* ---------------------------------------------------------------------------
\* The commands a transaction sends, as the card receives them
\* ---------------------------------------------------------------------------
\* the log of a card holds a command, its response, the next command, ...
Alternates(log) ==
  /\ Len(log) % 2 = 0
  /\ \A i \in 1..Len(log) :
       log[i].type = (IF i % 2 = 1 THEN "COMMAND" ELSE "RESPONSE")

CommandsOf(log) == [i \in 1..(Len(log) \div 2) |-> log[2 * i - 1].apdu]

\* the records an AFL lists, entry by entry: SFI and record number
RECURSIVE RecordsOfAfl(_)
RecordsOfAfl(aflBytes) ==
  IF Len(aflBytes) < 4 THEN <<>>
  ELSE [r \in 1..(IF aflBytes[3] >= aflBytes[2] THEN aflBytes[3] - aflBytes[2] + 1 ELSE 0)
          |-> [sfi |-> aflBytes[1] \div 8, record |-> aflBytes[2] + r - 1]]
       \o RecordsOfAfl(SubSeq(aflBytes, 5, Len(aflBytes)))

\* the reads of a run are over: GENERATE AC was built or sent
ReadsOver(run) ==
  \/ run.pc = "awaitGenAC"
  \/ /\ run.pc = "done"
     /\ \/ run.result[1].success
        \/ \E i \in 1..Len(run.ctx.errors) :
             run.ctx.errors[i].code \in {"GENERATE_AC_BUILD_FAILED", "GENERATE_AC_FAILED"}

\* the commands the card of a run has received are, in this order: SELECT
\* PPSE, SELECT of the chosen application, GET PROCESSING OPTIONS, one READ
\* RECORD per record of the card's AFL in AFL order, one GENERATE AC; each
\* followed by its response, one more at each await
InOrder(run, card) ==
  LET log == card.transactionLog
      given == CommandsOf(log)
      records == RecordsOfAfl(card.profile.staticData[TAG_AFL])
      n == Len(records)
  IN /\ Alternates(log)
     /\ Len(given) <= n + 4
     /\ \A i \in 1..Len(given) :
          IF i = 1 THEN given[i] = selectPPSE
          ELSE IF i = 2
            THEN /\ given[i].ins = "SELECT"
                 /\ Some(given[i].data) = run.ctx.selectedAID
                 /\ \E k \in 1..Len(card.profile.supportedAIDs) :
                      given[i].data = card.profile.supportedAIDs[k]
          ELSE IF i = 3 THEN given[i].ins = "GET_PROCESSING_OPTIONS"
          ELSE IF i <= n + 3
            THEN given[i] = readRecord(records[i - 3].record, records[i - 3].sfi)
          ELSE given[i].ins = "GENERATE_AC"
     /\ run.pc = "start" => Len(given) = 0
     /\ run.pc = "awaitPPSE" => Len(given) = 1
     /\ run.pc = "awaitSelect" => Len(given) = 2
     /\ run.pc = "awaitGPO" => Len(given) = 3
     /\ run.pc = "awaitRead" => (Len(given) \in 4..(n + 3)
                                 /\ Len(given) + Len(run.pending) = n + 3)
     /\ run.pc = "awaitGenAC" => Len(given) = n + 4
     /\ ReadsOver(run) => Len(given) >= n + 3

\* C34: in every run of executeContactlessTransaction the commands reach
\* the card in the order SELECT PPSE, SELECT application, GET PROCESSING
\* OPTIONS, READ RECORD (one per record of the AFL, in AFL order), GENERATE
\* AC (at most one), each sent only after the response to the previous one.
C34_CommandOrder ==
  /\ InOrder(runA, cards[runA.card])
  /\ InOrder(runB, cards[runB.card])

\* a transaction that read the two records of its AFL and sent GENERATE AC
C34_Witness ==
  /\ runB.pc = "done" /\ runB.result[1].success
  /\ Len(RecordsOfAfl(cards[runB.card].profile.staticData[TAG_AFL])) = 2
  /\ Len(cards[runB.card].transactionLog) = 12

\* ---------------------------------------------------------------------------
\* READ RECORD of a record the card does not hold
\* ---------------------------------------------------------------------------
\* the records processReadRecord has a branch for
HeldRecords == { [sfi |-> 1, record |-> 1], [sfi |-> 1, record |-> 2],
                 [sfi |-> 2, record |-> 1] }

\* C35: the card answers a READ RECORD for an (SFI, record number) it does
\* not hold with 6A83 and no data; only the records it holds are answered
\* with success.  (Stated for a card that accepts READ RECORD, that is after
\* GET PROCESSING OPTIONS.)
C35_MissingRecordNotFound ==
  (/\ last.op = "processCommand" /\ sent # <<>>
   /\ sent[Len(sent)].ins = INS_READ_RECORD
   /\ cards.cardA.currentState = "READING") =>
    LET asked == [sfi |-> sent[Len(sent)].p2 \div 8, record |-> sent[Len(sent)].p1]
    IN /\ asked \notin HeldRecords => last.response = error(SW_RECORD_NOT_FOUND)
       /\ isSuccess(last.response.sw) => asked \in HeldRecords

\* the same for the records the card holds
C35_HeldRecordsAnswered ==
  (/\ last.op = "processCommand" /\ sent # <<>>
   /\ sent[Len(sent)].ins = INS_READ_RECORD
   /\ cards.cardA.currentState = "READING") =>
    LET asked == [sfi |-> sent[Len(sent)].p2 \div 8, record |-> sent[Len(sent)].p1]
    IN asked \in HeldRecords =>
         (isSuccess(last.response.sw) /\ Len(last.response.data) > 2)

\* ---------------------------------------------------------------------------
\* The application transaction counter
\* ---------------------------------------------------------------------------
\* C36: the card's application transaction counter never decreases: it
\* increases by exactly one on each successful GENERATE AC, is unchanged by
\* every other command (a rejected GENERATE AC included) and is not reset by
\* reset(), while reset() returns the selected AID to none and the state to
\* IDLE.
C36_AtcMonotonic ==
  [][/\ cards'.cardA.atc >= cards.cardA.atc
     /\ CommandGiven =>
          cards'.cardA.atc =
            cards.cardA.atc
              + (IF GivenCommand.ins = INS_GENERATE_AC /\ AnsweredOk THEN 1 ELSE 0)
     /\ (~CommandGiven /\ last'.op = "reset" /\ hist'.steps # hist.steps) =>
          /\ cards'.cardA.atc = cards.cardA.atc
          /\ cards'.cardA.selectedAID = Null
          /\ cards'.cardA.currentState = "IDLE"
     /\ (~CommandGiven /\ last'.op = "fromHex") =>
          cards'.cardA = cards.cardA
    ]_vars

\* after a GENERATE AC answered with success and a reset, the counter is
\* one above the constructor's and the card is idle with no application
C36_Witness ==
  /\ last.op = "reset"
  /\ hist.acSinceGpo = 1
  /\ cards.cardA.atc = 2
  /\ cards.cardA.currentState = "IDLE"
  /\ cards.cardA.selectedAID = Null

\* ---------------------------------------------------------------------------
\* processCommand: one response and two log entries per command
\* ---------------------------------------------------------------------------
SupportedInstructions ==
  { INS_SELECT, INS_GET_PROCESSING_OPTIONS, INS_READ_RECORD, INS_GET_DATA,
    INS_GENERATE_AC, INS_VERIFY, INS_INTERNAL_AUTHENTICATE,
    INS_COMPUTE_CRYPTOGRAPHIC_CHECKSUM }

\* C40: for every command APDU (any instruction, any of the four cases)
\* processCommand returns a ResponseAPDU, 6D00 for an unsupported
\* instruction, and appends one COMMAND entry followed by one RESPONSE entry
\* to the transaction log, so the log always alternates COMMAND, RESPONSE.
C40_OneResponsePerCommand ==
  /\ Alternates(cards.cardA.transactionLog)
  /\ (last.op = "processCommand" /\ sent # <<>>) =>
       LET log == cards.cardA.transactionLog
           given == sent[Len(sent)]
       IN /\ ~last.threw
          /\ Len(log) >= 2
          /\ log[Len(log) - 1] = [type |-> "COMMAND", apdu |-> CommandAPDU_toBuffer(given)]
          /\ log[Len(log)] = [type |-> "RESPONSE",
                              apdu |-> last.response.data
                                       \o <<last.response.sw \div 256,
                                            last.response.sw % 256>>]
          /\ given.ins \notin SupportedInstructions
               => last.response = error(SW_INS_NOT_SUPPORTED)

\* the same for the commands that carry a data field (cases 3 and 4) and
\* for every instruction but SELECT
C40_WithDataField ==
  (last.op = "processCommand" /\ sent # <<>>
   /\ \A i \in 1..Len(sent) : (sent[i].ins # INS_SELECT \/ ~IsNull(sent[i].data))) =>
       LET log == cards.cardA.transactionLog
           given == sent[Len(sent)]
       IN /\ ~last.threw
          /\ Alternates(log)
          /\ Len(log) >= 2
          /\ log[Len(log) - 1] = [type |-> "COMMAND", apdu |-> CommandAPDU_toBuffer(given)]
          /\ log[Len(log)] = [type |-> "RESPONSE",
                              apdu |-> last.response.data
                                       \o <<last.response.sw \div 256,
                                            last.response.sw % 256>>]
          /\ given.ins \notin SupportedInstructions
               => last.response = error(SW_INS_NOT_SUPPORTED)

\* ---------------------------------------------------------------------------
\* Errors and the ERROR state
\* ---------------------------------------------------------------------------
\* C37: in every context reachable through engine calls, ctx.errors is
\* non-empty exactly when ctx.state is ERROR; in particular a result with
\* success = true has an empty errors list.
C37_ErrorsIffErrorState ==
  /\ (ctx.errors # <<>>) <=> (ctx.state = "ERROR")
  /\ getTransactionResult(ctx).success => getTransactionResult(ctx).errors = <<>>

\* one direction holds of the engine's response handlers taken alone: a
\* handler that set ERROR recorded an error
C37_ErrorStateHasError ==
  ctx.state = "ERROR" => ctx.errors # <<>>

\* the same in the results executeContactlessTransaction returns
C37_ReturnedErrorStateHasError ==
  (~IsNull(result) /\ result[1].state = "ERROR") => result[1].errors # <<>>

C37_ReturnedErrorsIffErrorState ==
  ~IsNull(result) => ((result[1].errors # <<>>) <=> (result[1].state = "ERROR"))

\* ---------------------------------------------------------------------------
\* The cryptogram of a completed transaction
\* ---------------------------------------------------------------------------
\* the Cryptogram Information Data bytes of the responses: the three defined
\* types, with and without low bits, and the reserved value
Cids == {AAC, TC, ARQC, 144, CID_RFU, 255}

\* GENERATE AC responses: a failure, both formats with each CID, Format 2
\* without the cryptogram, without the CID and without both, Format 1 cut
\* after the CID, and success responses in neither format
GenACResponseSamples ==
  { error(SW_CONDITIONS_NOT_SATISFIED) }
  \cup { GenACFormat1(cid) : cid \in Cids }
  \cup { GenACFormat2(cid) : cid \in Cids }
  \cup { success(build(<<addConstructed(TAG_FORMAT2,
                          <<addPrimitive(TAG_CID, <<cid>>)>>)>>)) : cid \in Cids }
  \cup { success(build(<<addConstructed(TAG_FORMAT2,
                          <<addPrimitive(TAG_AC, AC_BYTES)>>)>>)),
         success(build(<<addConstructed(TAG_FORMAT2,
                          <<addPrimitive(TAG_ATC, ATC_BYTES)>>)>>)),
         success(<<TAG_FORMAT1, 1, TC>>),
         success(<<TAG_RECORD, 0>>),
         success(<<>>) }

\* processGenACResponse on the context the reads of a transaction left
GenerateACResponse ==
  /\ probe.op = "genAC" /\ probe.stage = "new"
  /\ \E o \in { processGenACResponse(
                  [NewContext EXCEPT !.state = "READ_APPLICATION_DATA"], probe.arg) } :
       probe' = [probe EXCEPT !.stage = "decoded",
                              !.out = Returned([ctx |-> o.ctx, ok |-> o.ok])]
  /\ UNCHANGED <<engineVars, orch, runA, runB, cards>>

\* C38: whenever ctx.state is COMPLETION, ctx.cryptogram is non-null and
\* ctx.cryptogramType is one of the defined types AAC, TC, ARQC, for every
\* successful GENERATE AC response the engine can be given (either format,
\* any CID, any set of tags).
C38_CompletionHasCryptogram ==
  (probe.op = "genAC" /\ probe.stage = "decoded"
   /\ probe.out.value.ctx.state = "COMPLETION") =>
    /\ ~IsNull(probe.out.value.ctx.cryptogram)
    /\ probe.out.value.ctx.cryptogramType \in {Some(AAC), Some(TC), Some(ARQC)}

\* the same for the responses of either format that carry a cryptogram and
\* a CID whose two high bits are not both set
C38_WellFormedCompletion ==
  (probe.op = "genAC" /\ probe.stage = "decoded"
   /\ probe.out.value.ctx.state = "COMPLETION"
   /\ \E cid \in Cids : /\ ~(cid \div 64 = 3)
                        /\ probe.arg \in {GenACFormat1(cid), GenACFormat2(cid)}) =>
    /\ ~IsNull(probe.out.value.ctx.cryptogram)
    /\ probe.out.value.ctx.cryptogramType \in {Some(AAC), Some(TC), Some(ARQC)}

\* a success response in neither format completes the transaction
C38_NoFormatCompletes ==
  /\ probe.op = "genAC" /\ probe.stage = "decoded"
  /\ probe.arg = success(<<>>)
  /\ probe.out.value.ctx.state = "COMPLETION"
  /\ IsNull(probe.out.value.ctx.cryptogram)

\* ---------------------------------------------------------------------------
\* The kernel of a transaction
\* ---------------------------------------------------------------------------
\* the terminal can run the kernel: it lists it, or it is C8 on a terminal
\* with supportsC8
RunsKernel(cfg, kernel) ==
  supportsKernel(cfg, kernel) \/ (cfg.supportsC8 /\ kernel = KERNEL_C8)

\* once application selection has set the kernel of a run, no step changes
\* it to a kernel the terminal cannot run, and the result reports the
\* context's kernel
KernelKept(run, next) ==
  /\ (~IsNull(run.ctx.kernel) /\ next.ctx.kernel # run.ctx.kernel) =>
       (~IsNull(next.ctx.kernel) /\ RunsKernel(run.config, next.ctx.kernel[1]))
  /\ ~IsNull(next.result) => next.result[1].kernel = next.ctx.kernel

\* C39: the kernel reported in a transaction result is the kernel the
\* terminal chose during application selection: after
\* selectApplicationFromPPSE has set ctx.kernel (a legacy fallback to the
\* kernel derived from the AID included), no later step changes ctx.kernel
\* to a kernel the terminal does not support.
C39_KernelStaysSupported ==
  [][KernelKept(runA, runA') /\ KernelKept(runB, runB')]_vars

\* the same on the terminals that support the kernel the card names
C39_SupportedCardKernel ==
  [][(RunsKernel(runA.config, cards[runA.card].profile.kernelId)
        => KernelKept(runA, runA'))
     /\ (RunsKernel(runB.config, cards[runB.card].profile.kernelId)
        => KernelKept(runB, runB'))]_vars

\* a legacy terminal ends a transaction with the C8 card on kernel C8
C39_LegacyEndsOnC8 ==
  /\ runA.pc = "done"
  /\ runA.config = LegacyVisaTerminal
  /\ runA.result[1].kernel = Some(KERNEL_C8)

\* ===========================================================================
\* The codecs and the engine's functions called on their own
\* ===========================================================================
InitCodec ==
  /\ ctx = NewContext /\ ctxOff = NewContext /\ hist = NoHist
  /\ pc = "IDLE" /\ sent = <<>> /\ last = NoCall /\ pending = <<>>
  /\ genac = Null /\ result = Null /\ transactionHistory = <<>>
  /\ config = ModernTerminal /\ amount = 0
  /\ orch = Null /\ runA = Null /\ runB = Null /\ cards = Null
  /\ probe \in { NewProbe("command", c) : c \in Commands }
          \cup { Received("commandBytes", b) : b \in CommandBuffers }
          \cup { NewProbe("response", r) : r \in Responses }
          \cup { Received("responseBytes", b) : b \in ResponseBuffers }
          \cup { NewProbe("sw", w) : w \in StatusWords }
          \cup { NewProbe("tlv", t) : t \in Trees }
          \cup { Received("tlvBytes", b) : b \in TlvBuffers }
          \cup { Received("tlvTruncated", b) : b \in TruncatedTlv }
          \cup { NewProbe("length", n) : n \in Lengths }
          \cup { NewProbe("afl", a) : a \in Afls }
          \cup { NewProbe("par", [par |-> r.par, response |-> r.response,
                                  detectInteropIssues |-> d]) :
                   r \in ParRecords, d \in BOOLEAN }
          \cup { NewProbe("ffi", [kernel |-> k, ffi |-> f, detectInteropIssues |-> d]) :
                   k \in {KERNEL_C2, 3, KERNEL_C8}, f \in Ffis, d \in BOOLEAN }
          \cup { NewProbe("fallback", [preferred |-> p, actual |-> a, capabilities |-> c]) :
                   p \in KernelIds, a \in KernelIds, c \in Configs }
          \cup { NewProbe("dol", [dol |-> d, values |-> v]) :
                   d \in Dols, v \in DolValues }
          \cup { NewProbe("cardData", s) : s \in ResponseSequences }
          \cup { NewProbe("selectKernel", [profile |-> p, kernels |-> k]) :
                   p \in DiscoverProfiles, k \in TerminalKernelLists }
          \cup { NewProbe("genAC", r) : r \in GenACResponseSamples }

NextCodec ==
  \/ CommandToBuffer \/ CommandFromBuffer
  \/ ResponseToBuffer \/ ResponseFromBuffer \/ ResponseStatus
  \/ ClassifySW
  \/ TlvBuild \/ TlvParse
  \/ EncodeLength \/ ParseLength
  \/ DolParse \/ DolBuildData
  \/ ParseAFL \/ GenerateReadCommands
  \/ DetectKernelFallback
  \/ SelectWithFFI
  \/ ReadRecordWithPAR
  \/ ProcessNextResponse
  \/ SelectKernel
  \/ GenerateACResponse

SpecCodec == InitCodec /\ [][NextCodec]_vars

====
